---- MODULE Spec2Model ----
(***************************************************************************)
(* Model of the usage monitor (src/lib/builtin-glm-monitor.js), of the     *)
(* provider adapters (src/lib/llm-client.js, src/lib/builtin-glm-client.js)*)
(* and of the builtin generation path of smart-excalidraw-next.            *)
(*                                                                         *)
(* Time is counted in whole minutes since an epoch that falls on midnight  *)
(* of the first day of a month; a Date and its ISO string carry the same   *)
(* instant, so timestamps are the integers themselves.                     *)
(***************************************************************************)
EXTENDS Integers, Sequences, FiniteSets, TLC

VARIABLES
    now,          \* the wall clock (new Date()), in minutes
    elapsed,      \* minutes the clock has advanced since the start
    sessionData,  \* GLMMonitor.sessionData
    storage,      \* localStorage['glm-usage-session'] (null when absent)
    ret,          \* the last monitor call: its name, argument, the session before it, its result
    style,        \* provider style of the stream being processed
    transport,    \* the atoms of the response body not yet delivered by reader.read()
    wire,         \* the whole response body of the current stream
    buffer,       \* the adapter's line buffer
    partial,      \* whether some read has ended inside a line
    emitted,      \* builtin style: the chunks createGLMStream has enqueued, in order
    fullText,     \* content fragments handed to onChunk, in order
    queue,        \* builtin style: chunks enqueued in the ReadableStream and not yet read
    delivered,    \* builtin style: the chunk that fulfilled the consumer's read request
    streamState,  \* builtin style: state of the ReadableStream
    prodState,    \* the adapter's read loop
    consState,    \* builtin style: processGLMStream's read loop
    pc,           \* callBuiltinGLMAdapter: position in the generation
    usageCheck,   \* the dispatch-time result of recordUsage
    fetchCalls,   \* fetch calls made by callBuiltinGLM for the current generation
    thrown,       \* the message of the Error thrown to the caller of callLLM
    accumulatedCode, \* handleSendMessage: the content fragments received so far, joined
    generatedCode,   \* the code shown in the editor (setGeneratedCode)
    elements,        \* the element array on the canvas (setElements)
    pushed,          \* the arrays the current generation has passed to setElements, in order
    apiError,        \* setApiError (empty: null)
    jsonError,       \* setJsonError
    pagePc,          \* handleSendMessage: position in the generation
    out,             \* the last call of the repair functions: its name, argument and results
    prior,           \* the call of handleSendMessage that was reading when the latest began
    isBuiltinActive,    \* ConfigManager: whether the builtin configuration is the active one
    builtinStored,      \* localStorage: the persisted builtin-active flag
    builtinStatusCache, \* ConfigManager: the status last fetched and when
    serviceStatus,      \* what GET /api/builtin-llm-meta answers at present
    activeConfigId,     \* ConfigManager: id of the active user configuration (null: none)
    activeStored,       \* localStorage: the persisted active configuration id (null: absent)
    isLoaded,           \* ConfigManager: whether loadConfigs has run
    released,           \* how many times each reader a stream adapter acquired has been released
    isGenerating, \* the page's generating flag (setIsGenerating)
    canvas              \* ExcalidrawCanvas: its props, state, refs and pending scroll timer

monVars == <<now, elapsed, sessionData, storage, ret>>
streamVars == <<style, transport, wire, buffer, partial, emitted, fullText, queue, delivered,
                streamState, prodState, consState>>
genVars == <<pc, usageCheck, fetchCalls, thrown>>
pageVars == <<accumulatedCode, generatedCode, elements, pushed, apiError, jsonError, pagePc, out>>
overlapVars == <<prior>>
configVars == <<isBuiltinActive, builtinStored, builtinStatusCache, serviceStatus,
                activeConfigId, activeStored, isLoaded>>
lockVars == <<released>>
flagVars == <<isGenerating>>
canvasVars == <<canvas>>
vars == <<now, elapsed, sessionData, storage, ret, style, transport, wire, buffer, partial,
          emitted, fullText, queue, delivered, streamState, prodState, consState, pc, usageCheck,
          fetchCalls, thrown, accumulatedCode, generatedCode, elements, pushed, apiError,
          jsonError, pagePc, out, prior, isBuiltinActive, builtinStored, builtinStatusCache,
          serviceStatus, activeConfigId, activeStored, isLoaded,
          released,
          isGenerating,
          canvas>>

\* ---------------------------------------------------------------- bounds
MaxElapsed == 6
MaxRequests == 22
MaxViolations == 2

null == 0 - 1

\* ---------------------------------------------------------------- Date
getHours(t) == (t \div 60) % 24
getDate(t) == ((t \div 1440) % 30) + 1
getMonth(t) == (t \div 43200) % 12
getFullYear(t) == 1970 + (t \div 518400)

\* ---------------------------------------------------------------- GLMMonitor
\* limits whose hourly request cap lies above the daily one
getLimitsHourlyAboveDaily == [requestsPerHour |-> 60, tokensPerHour |-> 5000,
                              requestsPerDay |-> 50, cooldownMinutes |-> 5]

getLimits == [requestsPerHour |-> 20, tokensPerHour |-> 5000,
              requestsPerDay |-> 50, cooldownMinutes |-> 5]

FreshSession(t) ==
    [requests |-> 0, tokens |-> 0, lastReset |-> t, lastRequest |-> null, violations |-> <<>>]

\* loadSessionData: the stored session, unless absent or from another hour or day of month
loadSessionData(stored, t) ==
    IF stored = <<>> THEN FreshSession(t)
    ELSE IF getHours(t) # getHours(stored.lastReset) \/ getDate(t) # getDate(stored.lastReset)
         THEN FreshSession(t)
         ELSE stored

\* what the constructor leaves in localStorage
storedAfterLoad(stored, t) ==
    IF loadSessionData(stored, t) = stored THEN stored ELSE FreshSession(t)

Allowed == [allowed |-> TRUE, violation |-> "null", current |-> null, limit |-> null,
            cooldownEnd |-> null]

Denied(kind, cur, lim, cdEnd) ==
    [allowed |-> FALSE, violation |-> kind, current |-> cur, limit |-> lim, cooldownEnd |-> cdEnd]

lastViolation(s) == s.violations[Len(s.violations)]

cooldownEndOf(s, limits) == lastViolation(s).timestamp + limits.cooldownMinutes

\* checkLimits with the token cap tested before the request cap
checkLimitsTokensFirst(s, limits, t) ==
    IF Len(s.violations) > 0 /\ t < cooldownEndOf(s, limits)
    THEN Denied("COOLDOWN", 0, 0, cooldownEndOf(s, limits))
    ELSE IF s.tokens >= limits.tokensPerHour
    THEN Denied("HOURLY_TOKENS", s.tokens, limits.tokensPerHour, null)
    ELSE IF s.requests >= limits.requestsPerHour
    THEN Denied("HOURLY_REQUESTS", s.requests, limits.requestsPerHour, null)
    ELSE Allowed

\* checkLimits with the cooldown still active at its end instant
checkLimitsInclusiveEnd(s, limits, t) ==
    IF Len(s.violations) > 0 /\ t <= cooldownEndOf(s, limits)
    THEN Denied("COOLDOWN", 0, 0, cooldownEndOf(s, limits))
    ELSE IF s.requests >= limits.requestsPerHour
    THEN Denied("HOURLY_REQUESTS", s.requests, limits.requestsPerHour, null)
    ELSE IF s.tokens >= limits.tokensPerHour
    THEN Denied("HOURLY_TOKENS", s.tokens, limits.tokensPerHour, null)
    ELSE Allowed

checkLimits(s, limits, t) ==
    IF Len(s.violations) > 0 /\ t < cooldownEndOf(s, limits)
    THEN Denied("COOLDOWN", 0, 0, cooldownEndOf(s, limits))
    ELSE IF s.requests >= limits.requestsPerHour
    THEN Denied("HOURLY_REQUESTS", s.requests, limits.requestsPerHour, null)
    ELSE IF s.tokens >= limits.tokensPerHour
    THEN Denied("HOURLY_TOKENS", s.tokens, limits.tokensPerHour, null)
    ELSE IF /\ getDate(t) = getDate(s.lastReset)
            /\ getMonth(t) = getMonth(s.lastReset)
            /\ getFullYear(t) = getFullYear(s.lastReset)
            /\ s.requests >= limits.requestsPerDay
    THEN Denied("DAILY_REQUESTS", s.requests, limits.requestsPerDay, null)
    ELSE Allowed

\* recordUsage that forgets the token delta
countedNoTokens(s, tokenCount, t) ==
    [s EXCEPT !.requests = @ + 1, !.lastRequest = t]

\* the session as recordUsage leaves it, and the value it returns
counted(s, tokenCount, t) ==
    [s EXCEPT !.requests = @ + 1, !.tokens = @ + tokenCount, !.lastRequest = t]

recordedSession(s, tokenCount, t) ==
    LET c == counted(s, tokenCount, t)
        d == checkLimits(c, getLimits, t)
    IN  IF ~d.allowed
        THEN [c EXCEPT !.violations = Append(@, [timestamp |-> t, type |-> d.violation,
                                                  current |-> d.current, limit |-> d.limit])]
        ELSE c

recordedResult(s, tokenCount, t) ==
    LET c == counted(s, tokenCount, t)
        d == checkLimits(c, getLimits, t)
    IN  [decision |-> d,
         usage |-> [requests |-> c.requests, tokens |-> c.tokens, lastRequest |-> c.lastRequest]]

getUsageStats(s) ==
    [requests |-> s.requests, tokens |-> s.tokens, lastReset |-> s.lastReset,
     lastRequest |-> s.lastRequest, violations |-> Len(s.violations), limits |-> getLimits]

\* whether the last logged violation's cooldown is still running
isInCooldown(s, t) ==
    IF s.violations = <<>> THEN FALSE ELSE t < cooldownEndOf(s, getLimits)

\* the message shown for the current denial (its wording and the numbers it quotes),
\* or null when the limiter allows
getErrorMessage(s, t) ==
    LET check == checkLimits(s, getLimits, t)
    IN  IF check.allowed THEN [text |-> "null", shown |-> <<>>]
        ELSE CASE check.violation = "HOURLY_REQUESTS" ->
                      [text |-> "hourly request limit reached",
                       shown |-> <<check.limit, check.limit>>]
               [] check.violation = "HOURLY_TOKENS" ->
                      [text |-> "hourly token limit reached", shown |-> <<>>]
               [] check.violation = "DAILY_REQUESTS" ->
                      [text |-> "daily request limit reached",
                       shown |-> <<check.limit, check.limit>>]
               [] check.violation = "COOLDOWN" ->
                      [text |-> "retry after the cooldown", shown |-> <<>>]
               [] OTHER -> [text |-> "restricted", shown |-> <<>>]

CanRecord == sessionData.requests < MaxRequests /\ Len(sessionData.violations) < MaxViolations

RecordUsage(tokenCount) ==
    /\ CanRecord
    /\ sessionData' = recordedSession(sessionData, tokenCount, now)
    /\ storage' = sessionData'
    /\ ret' = [op |-> "recordUsage", arg |-> tokenCount, at |-> now, before |-> sessionData,
               result |-> recordedResult(sessionData, tokenCount, now)]
    /\ UNCHANGED <<now, elapsed>>
    /\ UNCHANGED streamVars
    /\ UNCHANGED genVars
    /\ UNCHANGED pageVars
    /\ UNCHANGED overlapVars
    /\ UNCHANGED configVars
    /\ UNCHANGED lockVars
    /\ UNCHANGED flagVars
    /\ UNCHANGED canvasVars

CheckLimits ==
    /\ ret' = [op |-> "checkLimits", arg |-> null, at |-> now, before |-> sessionData,
               result |-> checkLimits(sessionData, getLimits, now)]
    /\ UNCHANGED <<now, elapsed, sessionData, storage>>
    /\ UNCHANGED streamVars
    /\ UNCHANGED genVars
    /\ UNCHANGED pageVars
    /\ UNCHANGED overlapVars
    /\ UNCHANGED configVars
    /\ UNCHANGED lockVars
    /\ UNCHANGED flagVars
    /\ UNCHANGED canvasVars

GetUsageStats ==
    /\ ret' = [op |-> "getUsageStats", arg |-> null, at |-> now, before |-> sessionData,
               result |-> getUsageStats(sessionData)]
    /\ UNCHANGED <<now, elapsed, sessionData, storage>>
    /\ UNCHANGED streamVars
    /\ UNCHANGED genVars
    /\ UNCHANGED pageVars
    /\ UNCHANGED overlapVars
    /\ UNCHANGED configVars
    /\ UNCHANGED lockVars
    /\ UNCHANGED flagVars
    /\ UNCHANGED canvasVars

IsInCooldown ==
    /\ ret' = [op |-> "isInCooldown", arg |-> null, at |-> now, before |-> sessionData,
               result |-> isInCooldown(sessionData, now)]
    /\ UNCHANGED <<now, elapsed, sessionData, storage>>
    /\ UNCHANGED streamVars
    /\ UNCHANGED genVars
    /\ UNCHANGED pageVars
    /\ UNCHANGED overlapVars
    /\ UNCHANGED configVars
    /\ UNCHANGED lockVars
    /\ UNCHANGED flagVars
    /\ UNCHANGED canvasVars

\* a getErrorMessage that clears the counters it reports on
GetErrorMessageClears ==
    /\ ret' = [op |-> "getErrorMessage", arg |-> null, at |-> now, before |-> sessionData,
               result |-> getErrorMessage(sessionData, now)]
    /\ sessionData' = [sessionData EXCEPT !.requests = 0, !.tokens = 0]
    /\ storage' = sessionData'
    /\ UNCHANGED <<now, elapsed>>
    /\ UNCHANGED streamVars
    /\ UNCHANGED genVars
    /\ UNCHANGED pageVars
    /\ UNCHANGED overlapVars
    /\ UNCHANGED configVars
    /\ UNCHANGED lockVars
    /\ UNCHANGED flagVars
    /\ UNCHANGED canvasVars

GetErrorMessage ==
    /\ ret' = [op |-> "getErrorMessage", arg |-> null, at |-> now, before |-> sessionData,
               result |-> getErrorMessage(sessionData, now)]
    /\ UNCHANGED <<now, elapsed, sessionData, storage>>
    /\ UNCHANGED streamVars
    /\ UNCHANGED genVars
    /\ UNCHANGED pageVars
    /\ UNCHANGED overlapVars
    /\ UNCHANGED configVars
    /\ UNCHANGED lockVars
    /\ UNCHANGED flagVars
    /\ UNCHANGED canvasVars

\* a reset that zeroes the counts and keeps the violation log
ResetUsageKeepsLog ==
    /\ sessionData' = [FreshSession(now) EXCEPT !.violations = sessionData.violations]
    /\ storage' = sessionData'
    /\ ret' = [op |-> "resetUsage", arg |-> null, at |-> now, before |-> sessionData,
               result |-> null]
    /\ UNCHANGED <<now, elapsed>>
    /\ UNCHANGED streamVars
    /\ UNCHANGED genVars
    /\ UNCHANGED pageVars
    /\ UNCHANGED overlapVars
    /\ UNCHANGED configVars
    /\ UNCHANGED lockVars
    /\ UNCHANGED flagVars
    /\ UNCHANGED canvasVars

ResetUsage ==
    /\ sessionData' = FreshSession(now)
    /\ storage' = sessionData'
    /\ ret' = [op |-> "resetUsage", arg |-> null, at |-> now, before |-> sessionData,
               result |-> null]
    /\ UNCHANGED <<now, elapsed>>
    /\ UNCHANGED streamVars
    /\ UNCHANGED genVars
    /\ UNCHANGED pageVars
    /\ UNCHANGED overlapVars
    /\ UNCHANGED configVars
    /\ UNCHANGED lockVars
    /\ UNCHANGED flagVars
    /\ UNCHANGED canvasVars

\* a page load constructs the module's singleton again
Reload ==
    /\ sessionData' = loadSessionData(storage, now)
    /\ storage' = storedAfterLoad(storage, now)
    /\ ret' = [op |-> "constructor", arg |-> null, at |-> now, before |-> sessionData,
               result |-> null]
    /\ UNCHANGED <<now, elapsed>>
    /\ UNCHANGED streamVars
    /\ UNCHANGED genVars
    /\ UNCHANGED pageVars
    /\ UNCHANGED overlapVars
    /\ UNCHANGED configVars
    /\ UNCHANGED lockVars
    /\ UNCHANGED flagVars
    /\ UNCHANGED canvasVars

Tick ==
    /\ elapsed < MaxElapsed
    /\ now' = now + 1
    /\ elapsed' = elapsed + 1
    /\ UNCHANGED <<sessionData, storage, ret>>
    /\ UNCHANGED streamVars
    /\ UNCHANGED genVars
    /\ UNCHANGED pageVars
    /\ UNCHANGED overlapVars
    /\ UNCHANGED configVars
    /\ UNCHANGED lockVars
    /\ UNCHANGED flagVars
    /\ UNCHANGED canvasVars

\* ---------------------------------------------------------------- transport text
\* The response body is a sequence of atoms, each an indivisible run of bytes:
\*   "NL" a newline, "SP" white space, "DATA" the prefix `data: `, "ERR" the
\*   prefix `error: `, "DONE" the text `[DONE]`, and one atom per JSON payload.
MaxLines == 3

JsonAtoms == {"cA", "cB", "fin", "use", "fu", "efr", "tA", "tB", "tStart", "emsg"}

\* JSON.parse of a payload atom
Json(a) ==
    LET none == [hasChoice |-> FALSE, content |-> "", finish_reason |-> "", type |-> "",
                 text |-> "", hasUsage |-> FALSE, total_tokens |-> 0, error |-> "",
                 message |-> ""]
    IN  CASE a = "cA" -> [none EXCEPT !.hasChoice = TRUE, !.content = "a"]
          [] a = "cB" -> [none EXCEPT !.hasChoice = TRUE, !.content = "b"]
          [] a = "fin" -> [none EXCEPT !.hasChoice = TRUE, !.finish_reason = "stop"]
          [] a = "use" -> [none EXCEPT !.hasUsage = TRUE, !.total_tokens = 2500]
          [] a = "fu" -> [none EXCEPT !.hasChoice = TRUE, !.finish_reason = "stop",
                                      !.hasUsage = TRUE, !.total_tokens = 2500]
          [] a = "efr" -> [none EXCEPT !.error = "m"]
          [] a = "tA" -> [none EXCEPT !.type = "content_block_delta", !.text = "a"]
          [] a = "tB" -> [none EXCEPT !.type = "content_block_delta", !.text = "b"]
          [] a = "tStart" -> [none EXCEPT !.type = "message_start"]
          [] a = "emsg" -> [none EXCEPT !.message = "m"]

\* the characters \s matches: "SP" a blank or tab, "LF" a line break inside a text
whitespace == {"SP", "LF"}

RECURSIVE trimStart(_)
trimStart(s) == IF s # <<>> /\ Head(s) \in whitespace THEN trimStart(Tail(s)) ELSE s

RECURSIVE trimEnd(_)
trimEnd(s) ==
    IF s # <<>> /\ s[Len(s)] \in whitespace THEN trimEnd(SubSeq(s, 1, Len(s) - 1)) ELSE s

trim(s) == trimEnd(trimStart(s))

startsWith(s, a) == s # <<>> /\ Head(s) = a

\* JSON.parse(text) does not throw: one payload, white space around it allowed
parses(text) == Len(trim(text)) = 1 /\ trim(text)[1] \in JsonAtoms

parsed(text) == Json(trim(text)[1])

hasNL(s) == \E i \in 1..Len(s) : s[i] = "NL"

firstNL(s) == CHOOSE i \in 1..Len(s) : s[i] = "NL" /\ \A j \in 1..(i - 1) : s[j] # "NL"

\* buffer.split('\n') without its last piece, and lines.pop() || ''
RECURSIVE splitLines(_)
splitLines(s) ==
    IF hasNL(s)
    THEN <<SubSeq(s, 1, firstNL(s) - 1)>> \o splitLines(SubSeq(s, firstNL(s) + 1, Len(s)))
    ELSE <<>>

\* a read loop that drops the incomplete line at the end of a read
lastPieceDropped(s) == <<>>

RECURSIVE lastPiece(_)
lastPiece(s) == IF hasNL(s) THEN lastPiece(SubSeq(s, firstNL(s) + 1, Len(s))) ELSE s

\* ---------------------------------------------------------------- processOpenAIStream
openAILine(line) ==
    LET trimmed == trim(line)
    IN  IF trimmed = <<>> \/ trimmed = <<"DATA", "DONE">> THEN <<>>
        ELSE IF startsWith(trimmed, "DATA") /\ parses(Tail(trimmed))
                  /\ parsed(Tail(trimmed)).hasChoice /\ parsed(Tail(trimmed)).content # ""
        THEN <<parsed(Tail(trimmed)).content>>
        ELSE <<>>

RECURSIVE openAILines(_)
openAILines(lines) ==
    IF lines = <<>> THEN <<>> ELSE openAILine(Head(lines)) \o openAILines(Tail(lines))

\* ---------------------------------------------------------------- processAnthropicStream
anthropicLine(line) ==
    LET trimmed == trim(line)
    IN  IF trimmed = <<>> \/ ~startsWith(trimmed, "DATA") THEN <<>>
        ELSE IF parses(Tail(trimmed)) /\ parsed(Tail(trimmed)).type = "content_block_delta"
                  /\ parsed(Tail(trimmed)).text # ""
        THEN <<parsed(Tail(trimmed)).text>>
        ELSE <<>>

RECURSIVE anthropicLines(_)
anthropicLines(lines) ==
    IF lines = <<>> THEN <<>> ELSE anthropicLine(Head(lines)) \o anthropicLines(Tail(lines))

\* no reader released yet: body is the reader of the response body, stream the reader
\* processGLMStream takes on the stream of createGLMStream
NoReleases == [body |-> 0, stream |-> 0]

LockIdle == released = NoReleases

\* reader.releaseLock() in a finally block
releasedOnce(reader) == [released EXCEPT ![reader] = @ + 1]

\* one pass of the read loop of processOpenAIStream
OpenAIRead ==
    /\ style = "openai"
    /\ prodState = "reading"
    /\ transport # <<>>
    /\ \E n \in 1..Len(transport) :
          LET text == buffer \o SubSeq(transport, 1, n)
          IN  /\ transport' = SubSeq(transport, n + 1, Len(transport))
              /\ buffer' = lastPiece(text)
              /\ partial' = (partial \/ buffer' # <<>>)
              /\ fullText' = fullText \o openAILines(splitLines(text))
    /\ UNCHANGED <<style, wire, emitted, queue, delivered, streamState, prodState, consState>>
    /\ UNCHANGED monVars
    /\ UNCHANGED genVars
    /\ UNCHANGED pageVars
    /\ UNCHANGED overlapVars
    /\ UNCHANGED configVars
    /\ UNCHANGED lockVars
    /\ UNCHANGED flagVars
    /\ UNCHANGED canvasVars

\* reader.read() reports done: the loop ends, the reader is released, fullText is returned
OpenAIDone ==
    /\ style = "openai"
    /\ prodState = "reading"
    /\ transport = <<>>
    /\ prodState' = "done"
    /\ UNCHANGED <<style, transport, wire, buffer, partial, emitted, fullText, queue, delivered,
                   streamState, consState>>
    /\ UNCHANGED monVars
    /\ UNCHANGED genVars
    /\ UNCHANGED pageVars
    /\ UNCHANGED overlapVars
    /\ UNCHANGED configVars
    /\ released' = releasedOnce("body")
    /\ UNCHANGED flagVars
    /\ UNCHANGED canvasVars

\* one pass of the read loop of processAnthropicStream
AnthropicRead ==
    /\ style = "anthropic"
    /\ prodState = "reading"
    /\ transport # <<>>
    /\ \E n \in 1..Len(transport) :
          LET text == buffer \o SubSeq(transport, 1, n)
          IN  /\ transport' = SubSeq(transport, n + 1, Len(transport))
              /\ buffer' = lastPiece(text)
              /\ partial' = (partial \/ buffer' # <<>>)
              /\ fullText' = fullText \o anthropicLines(splitLines(text))
    /\ UNCHANGED <<style, wire, emitted, queue, delivered, streamState, prodState, consState>>
    /\ UNCHANGED monVars
    /\ UNCHANGED genVars
    /\ UNCHANGED pageVars
    /\ UNCHANGED overlapVars
    /\ UNCHANGED configVars
    /\ UNCHANGED lockVars
    /\ UNCHANGED flagVars
    /\ UNCHANGED canvasVars

\* reader.read() reports done: the loop ends, the reader is released, fullText is returned
AnthropicDone ==
    /\ style = "anthropic"
    /\ prodState = "reading"
    /\ transport = <<>>
    /\ prodState' = "done"
    /\ UNCHANGED <<style, transport, wire, buffer, partial, emitted, fullText, queue, delivered,
                   streamState, consState>>
    /\ UNCHANGED monVars
    /\ UNCHANGED genVars
    /\ UNCHANGED pageVars
    /\ UNCHANGED overlapVars
    /\ UNCHANGED configVars
    /\ released' = releasedOnce("body")
    /\ UNCHANGED flagVars
    /\ UNCHANGED canvasVars

\* ---------------------------------------------------------------- createGLMStream
NoChunk == [type |-> "none", content |-> "", tokens |-> 0, error |-> ""]

processGLMChunk(chunk) ==
    IF chunk.hasChoice /\ chunk.content # ""
    THEN [NoChunk EXCEPT !.type = "content", !.content = chunk.content]
    ELSE IF chunk.hasChoice /\ chunk.finish_reason # ""
    THEN [NoChunk EXCEPT !.type = "finish"]
    ELSE IF chunk.error # ""
    THEN [NoChunk EXCEPT !.type = "error", !.error = chunk.error]
    ELSE IF chunk.hasUsage
    THEN [NoChunk EXCEPT !.type = "usage", !.tokens = chunk.total_tokens]
    ELSE NoChunk

\* The ReadableStream handed to processGLMStream, as a record
\*   [queue, state, error, cons, delivered, emitted, stop]:
\* its chunk queue, its state, its stored error, the state of the consumer's read
\* request, the chunk that fulfilled it, the chunks enqueued so far, and whether
\* start() has returned.

\* controller.enqueue: a pending read request is fulfilled with the chunk, else it is queued
enqueue(st, chunk) ==
    IF st.cons = "waiting"
    THEN [st EXCEPT !.cons = "got", !.delivered = chunk, !.emitted = Append(@, chunk)]
    ELSE [st EXCEPT !.queue = Append(@, chunk), !.emitted = Append(@, chunk)]

\* controller.close: the stream closes once its queue is drained
close(st) ==
    IF st.queue = <<>>
    THEN [st EXCEPT !.state = "closed", !.cons = IF @ = "waiting" THEN "gotDone" ELSE @]
    ELSE [st EXCEPT !.state = "closeRequested"]

\* controller.error: the queue is reset and a pending read request is rejected
error(st, e) ==
    [st EXCEPT !.queue = <<>>, !.state = "errored", !.error = e,
               !.cons = IF @ = "waiting" THEN "gotError" ELSE @]

\* the message of the Error an `error: ` line raises
errorLineMessage(errorData) ==
    IF parses(errorData) /\ parsed(errorData).message # ""
    THEN <<"GLM Error: ", parsed(errorData).message>>
    ELSE <<"GLM Error: ">> \o errorData

\* a line handler that skips the terminator line instead of closing the stream
glmLineSkipsTerminator(st, line) ==
    IF startsWith(line, "DATA")
    THEN IF Tail(line) = <<"DONE">>
         THEN st
         ELSE IF parses(Tail(line)) /\ processGLMChunk(parsed(Tail(line))) # NoChunk
              THEN enqueue(st, processGLMChunk(parsed(Tail(line))))
              ELSE st
    ELSE IF startsWith(line, "ERR")
    THEN [error(st, errorLineMessage(Tail(line))) EXCEPT !.stop = TRUE]
    ELSE st

\* a line handler without the try around JSON.parse: the SyntaxError reaches the
\* catch of start(), which errors the stream
glmLineMalformedFatal(st, line) ==
    IF startsWith(line, "DATA")
    THEN IF Tail(line) = <<"DONE">>
         THEN [close(st) EXCEPT !.stop = TRUE]
         ELSE IF ~parses(Tail(line))
              THEN [error(st, <<"SyntaxError">>) EXCEPT !.stop = TRUE]
              ELSE IF processGLMChunk(parsed(Tail(line))) # NoChunk
                   THEN enqueue(st, processGLMChunk(parsed(Tail(line))))
                   ELSE st
    ELSE IF startsWith(line, "ERR")
    THEN [error(st, errorLineMessage(Tail(line))) EXCEPT !.stop = TRUE]
    ELSE st

\* a line handler that goes on to the next line after an `error: ` line
glmLineErrorContinues(st, line) ==
    IF startsWith(line, "DATA")
    THEN IF Tail(line) = <<"DONE">>
         THEN [close(st) EXCEPT !.stop = TRUE]
         ELSE IF parses(Tail(line)) /\ processGLMChunk(parsed(Tail(line))) # NoChunk
              THEN enqueue(st, processGLMChunk(parsed(Tail(line))))
              ELSE st
    ELSE IF startsWith(line, "ERR")
    THEN error(st, errorLineMessage(Tail(line)))
    ELSE st

glmLine(st, line) ==
    IF startsWith(line, "DATA")
    THEN IF Tail(line) = <<"DONE">>
         THEN [close(st) EXCEPT !.stop = TRUE]
         ELSE IF parses(Tail(line)) /\ processGLMChunk(parsed(Tail(line))) # NoChunk
              THEN enqueue(st, processGLMChunk(parsed(Tail(line))))
              ELSE st
    ELSE IF startsWith(line, "ERR")
    THEN [error(st, errorLineMessage(Tail(line))) EXCEPT !.stop = TRUE]
    ELSE st

RECURSIVE glmLines(_, _)
glmLines(st, lines) ==
    IF lines = <<>> \/ st.stop THEN st ELSE glmLines(glmLine(st, Head(lines)), Tail(lines))

streamRecord ==
    [queue |-> queue, state |-> streamState.state, error |-> streamState.error,
     cons |-> consState, delivered |-> delivered, emitted |-> emitted, stop |-> FALSE]

\* one pass of the read loop in start(): a read of the response body and its lines
GLMProducerRead ==
    /\ style = "builtin-glm"
    /\ prodState = "reading"
    /\ transport # <<>>
    /\ \E n \in 1..Len(transport) :
          LET text == buffer \o SubSeq(transport, 1, n)
              st == glmLines(streamRecord, splitLines(text))
          IN  /\ transport' = SubSeq(transport, n + 1, Len(transport))
              /\ buffer' = lastPiece(text)
              /\ partial' = (partial \/ buffer' # <<>>)
              /\ emitted' = st.emitted
              /\ queue' = st.queue
              /\ streamState' = [state |-> st.state, error |-> st.error]
              /\ consState' = st.cons
              /\ delivered' = st.delivered
              /\ prodState' = IF st.stop THEN "done" ELSE "reading"
              /\ released' = IF st.stop THEN releasedOnce("body") ELSE released
    /\ UNCHANGED <<style, wire, fullText>>
    /\ UNCHANGED monVars
    /\ UNCHANGED genVars
    /\ UNCHANGED pageVars
    /\ UNCHANGED overlapVars
    /\ UNCHANGED configVars
    /\ UNCHANGED flagVars
    /\ UNCHANGED canvasVars

\* the response body reports done: controller.close(), the reader is released
GLMProducerDone ==
    /\ style = "builtin-glm"
    /\ prodState = "reading"
    /\ transport = <<>>
    /\ LET st == close(streamRecord)
       IN  /\ queue' = st.queue
           /\ streamState' = [state |-> st.state, error |-> st.error]
           /\ consState' = st.cons
           /\ delivered' = st.delivered
    /\ prodState' = "done"
    /\ UNCHANGED <<style, transport, wire, buffer, partial, emitted, fullText>>
    /\ UNCHANGED monVars
    /\ UNCHANGED genVars
    /\ UNCHANGED pageVars
    /\ UNCHANGED overlapVars
    /\ UNCHANGED configVars
    /\ released' = releasedOnce("body")
    /\ UNCHANGED flagVars
    /\ UNCHANGED canvasVars

\* ---------------------------------------------------------------- processGLMStream
\* reader.read() on the ReadableStream
read(st) ==
    IF st.queue # <<>>
    THEN [st EXCEPT !.cons = "got", !.delivered = Head(st.queue), !.queue = Tail(st.queue),
                    !.state = IF @ = "closeRequested" /\ Len(st.queue) = 1 THEN "closed" ELSE @]
    ELSE IF st.state = "closed" THEN [st EXCEPT !.cons = "gotDone"]
    ELSE IF st.state = "errored" THEN [st EXCEPT !.cons = "gotError"]
    ELSE [st EXCEPT !.cons = "waiting"]

\* the first reader.read() of the loop
GLMConsumerStart ==
    /\ style = "builtin-glm"
    /\ consState = "start"
    /\ LET st == read(streamRecord)
       IN  /\ queue' = st.queue
           /\ streamState' = [state |-> st.state, error |-> st.error]
           /\ consState' = st.cons
           /\ delivered' = st.delivered
    /\ UNCHANGED <<style, transport, wire, buffer, partial, emitted, fullText, prodState>>
    /\ UNCHANGED monVars
    /\ UNCHANGED genVars
    /\ UNCHANGED pageVars
    /\ UNCHANGED overlapVars
    /\ UNCHANGED configVars
    /\ UNCHANGED lockVars
    /\ UNCHANGED flagVars
    /\ UNCHANGED canvasVars

\* the loop body on a chunk, then the next reader.read()
GLMConsumerChunk ==
    /\ style = "builtin-glm"
    /\ consState = "got"
    /\ delivered.type = "usage" => CanRecord
    /\ IF delivered.type = "error"
       THEN /\ consState' = "threw"
            /\ thrown' = <<delivered.error>>
            /\ released' = releasedOnce("stream")
            /\ UNCHANGED <<queue, streamState, delivered, fullText>>
            /\ UNCHANGED monVars
       ELSE /\ LET st == read(streamRecord)
               IN  /\ queue' = st.queue
                   /\ streamState' = [state |-> st.state, error |-> st.error]
                   /\ consState' = st.cons
                   /\ delivered' = st.delivered
            /\ fullText' = IF delivered.type = "content"
                           THEN Append(fullText, delivered.content) ELSE fullText
            /\ IF delivered.type = "usage"
               THEN /\ sessionData' = recordedSession(sessionData, delivered.tokens, now)
                    /\ storage' = sessionData'
                    /\ ret' = [op |-> "recordUsage", arg |-> delivered.tokens, at |-> now,
                               before |-> sessionData,
                               result |-> recordedResult(sessionData, delivered.tokens, now)]
                    /\ UNCHANGED <<now, elapsed>>
               ELSE UNCHANGED monVars
            /\ UNCHANGED thrown
            /\ UNCHANGED released
    /\ UNCHANGED <<style, transport, wire, buffer, partial, emitted, prodState, pc, usageCheck,
                   fetchCalls>>
    /\ UNCHANGED pageVars
    /\ UNCHANGED overlapVars
    /\ UNCHANGED configVars
    /\ UNCHANGED flagVars
    /\ UNCHANGED canvasVars

\* the read reports done: the loop ends, the reader is released, fullText is returned
GLMConsumerEnd ==
    /\ style = "builtin-glm"
    /\ consState = "gotDone"
    /\ consState' = "returned"
    /\ UNCHANGED <<style, transport, wire, buffer, partial, emitted, fullText, queue, delivered,
                   streamState, prodState>>
    /\ UNCHANGED monVars
    /\ UNCHANGED genVars
    /\ UNCHANGED pageVars
    /\ UNCHANGED overlapVars
    /\ UNCHANGED configVars
    /\ released' = releasedOnce("stream")
    /\ UNCHANGED flagVars
    /\ UNCHANGED canvasVars

\* a rejected read that leaves the loop and keeps the reader locked
GLMConsumerFailKeepsLock ==
    /\ style = "builtin-glm"
    /\ consState = "gotError"
    /\ consState' = "threw"
    /\ thrown' = streamState.error
    /\ UNCHANGED <<style, transport, wire, buffer, partial, emitted, fullText, queue, delivered,
                   streamState, prodState>>
    /\ UNCHANGED monVars
    /\ UNCHANGED <<pc, usageCheck, fetchCalls>>
    /\ UNCHANGED pageVars
    /\ UNCHANGED overlapVars
    /\ UNCHANGED configVars
    /\ UNCHANGED lockVars
    /\ UNCHANGED flagVars
    /\ UNCHANGED canvasVars

\* the read rejects with the stream's stored error, which processGLMStream lets through
GLMConsumerFail ==
    /\ style = "builtin-glm"
    /\ consState = "gotError"
    /\ consState' = "threw"
    /\ thrown' = streamState.error
    /\ UNCHANGED <<style, transport, wire, buffer, partial, emitted, fullText, queue, delivered,
                   streamState, prodState>>
    /\ UNCHANGED monVars
    /\ UNCHANGED <<pc, usageCheck, fetchCalls>>
    /\ UNCHANGED pageVars
    /\ UNCHANGED overlapVars
    /\ UNCHANGED configVars
    /\ released' = releasedOnce("stream")
    /\ UNCHANGED flagVars
    /\ UNCHANGED canvasVars

\* ---------------------------------------------------------------- parseGLMError
RECURSIVE includes(_, _)

\* onChunk throws on a content chunk: the exception leaves the loop through the finally
\* block, which releases the reader, and reaches the caller
GLMOnChunkThrows ==
    /\ style = "builtin-glm"
    /\ consState = "got"
    /\ delivered.type = "content"
    /\ fullText' = Append(fullText, delivered.content)
    /\ consState' = "threw"
    /\ thrown' = <<"onChunk">>
    /\ released' = releasedOnce("stream")
    /\ UNCHANGED <<style, transport, wire, buffer, partial, emitted, queue, delivered,
                   streamState, prodState>>
    /\ UNCHANGED monVars
    /\ UNCHANGED <<pc, usageCheck, fetchCalls>>
    /\ UNCHANGED pageVars
    /\ UNCHANGED overlapVars
    /\ UNCHANGED configVars
    /\ UNCHANGED flagVars
    /\ UNCHANGED canvasVars
includes(s, sub) ==
    IF Len(s) < Len(sub) THEN FALSE
    ELSE IF SubSeq(s, 1, Len(sub)) = sub THEN TRUE
    ELSE includes(Tail(s), sub)

\* the text of a violation kind, character by character
violationText(kind) ==
    CASE kind = "HOURLY_REQUESTS" ->
            <<"H", "O", "U", "R", "L", "Y", "_", "R", "E", "Q", "U", "E", "S", "T", "S">>
      [] kind = "HOURLY_TOKENS" ->
            <<"H", "O", "U", "R", "L", "Y", "_", "T", "O", "K", "E", "N", "S">>
      [] kind = "DAILY_REQUESTS" ->
            <<"D", "A", "I", "L", "Y", "_", "R", "E", "Q", "U", "E", "S", "T", "S">>
      [] kind = "COOLDOWN" -> <<"C", "O", "O", "L", "D", "O", "W", "N">>

\* the message callBuiltinGLM throws without BUILTIN_GLM_BASE_URL or BUILTIN_GLM_API_KEY
\* ("?" stands for a character outside ASCII)
notConfiguredText ==
    <<"?", "?", " ", "G", "L", "M", "-", "4", ".", "6", " ", "A", "P", "I", " ", "?", "?", "?">>

\* `GLM API Error ${response.status}: ${errorText}` with an empty body
apiErrorText(status) ==
    <<"G", "L", "M", " ", "A", "P", "I", " ", "E", "r", "r", "o", "r", " ">> \o status \o <<":", " ">>

\* the message of the TypeError a failed fetch rejects with
fetchFailedText == <<"F", "a", "i", "l", "e", "d", " ", "t", "o", " ", "f", "e", "t", "c", "h">>

parseGLMError(errorMessage) ==
    IF \/ includes(errorMessage, <<"4", "0", "1">>)
       \/ includes(errorMessage, <<"u", "n", "a", "u", "t", "h", "o", "r", "i", "z", "e", "d">>)
    THEN [type |-> "AUTHENTICATION_ERROR", message |-> "invalid API key"]
    ELSE IF \/ includes(errorMessage, <<"4", "0", "3">>)
            \/ includes(errorMessage, <<"f", "o", "r", "b", "i", "d", "d", "e", "n">>)
    THEN [type |-> "PERMISSION_DENIED", message |-> "insufficient API permission"]
    ELSE IF \/ includes(errorMessage, <<"4", "2", "9">>)
            \/ includes(errorMessage, <<"r", "a", "t", "e", " ", "l", "i", "m", "i", "t">>)
    THEN [type |-> "RATE_LIMIT_EXCEEDED", message |-> "API call rate exceeded"]
    ELSE IF \/ includes(errorMessage, <<"4", "0", "4">>)
            \/ includes(errorMessage, <<"n", "o", "t", " ", "f", "o", "u", "n", "d">>)
    THEN [type |-> "NOT_FOUND", message |-> "API endpoint does not exist"]
    ELSE IF \/ includes(errorMessage, <<"4", "0", "0">>)
            \/ includes(errorMessage, <<"b", "a", "d", " ", "r", "e", "q", "u", "e", "s", "t">>)
    THEN [type |-> "INVALID_REQUEST", message |-> "malformed request"]
    ELSE IF \/ includes(errorMessage, <<"f", "e", "t", "c", "h">>)
            \/ includes(errorMessage, <<"n", "e", "t", "w", "o", "r", "k">>)
    THEN [type |-> "NETWORK_ERROR", message |-> "network connection error"]
    ELSE [type |-> "INTERNAL_ERROR", message |-> "internal server error"]

\* ---------------------------------------------------------------- callBuiltinGLMAdapter
\* the Error the catch block of callBuiltinGLMAdapter throws for a caught message
adapterError(errorMessage) == <<"builtin GLM error: ", parseGLMError(errorMessage).message>>

\* the response bodies a dispatched generation may receive
GenWires ==
    { <<"DATA", "cA", "NL", "DATA", "use", "NL", "DATA", "DONE", "NL">>,
      <<"DATA", "cA", "NL", "DATA", "cB", "NL", "ERR", "raw", "NL">>,
      <<"DATA", "cA", "NL", "DATA", "fu", "NL", "DATA", "DONE", "NL">>,
      <<"DATA", "cB", "NL">> }

\* an adapter that ignores the limiter's decision
passesLimiterAlways(check) == TRUE

\* whether the dispatch-time limit check lets the generation go on to callBuiltinGLM
passesLimiter(check) == check.decision.allowed

\* callBuiltinGLMAdapter up to its first suspension: recordUsage(), and unless the
\* limiter denies, callBuiltinGLM up to its fetch
StartGeneration(configured) ==
    /\ pc \in {"idle", "completed", "failed"}
    /\ CanRecord
    /\ sessionData' = recordedSession(sessionData, 0, now)
    /\ storage' = sessionData'
    /\ ret' = [op |-> "recordUsage", arg |-> 0, at |-> now, before |-> sessionData,
               result |-> recordedResult(sessionData, 0, now)]
    /\ usageCheck' = recordedResult(sessionData, 0, now)
    /\ IF ~passesLimiter(usageCheck')
       THEN /\ thrown' = adapterError(violationText(usageCheck'.decision.violation))
            /\ pc' = "failed"
            /\ fetchCalls' = 0
       ELSE IF ~configured
       THEN /\ thrown' = adapterError(notConfiguredText)
            /\ pc' = "failed"
            /\ fetchCalls' = 0
       ELSE /\ thrown' = <<>>
            /\ pc' = "fetching"
            /\ fetchCalls' = 1
    /\ style' = "builtin-glm"
    /\ transport' = <<>>
    /\ wire' = <<>>
    /\ buffer' = <<>>
    /\ partial' = FALSE
    /\ emitted' = <<>>
    /\ fullText' = <<>>
    /\ queue' = <<>>
    /\ delivered' = NoChunk
    /\ streamState' = [state |-> "readable", error |-> <<>>]
    /\ prodState' = "idle"
    /\ consState' = "idle"
    /\ UNCHANGED <<now, elapsed>>
    /\ UNCHANGED pageVars
    /\ UNCHANGED overlapVars
    /\ UNCHANGED configVars
    /\ released' = NoReleases
    /\ UNCHANGED flagVars
    /\ UNCHANGED canvasVars

\* a client that answers a rejected fetch by fetching once more
FetchFailsRetries ==
    /\ pc = "fetching"
    /\ fetchCalls' = 2
    /\ pc' = "fetching"
    /\ UNCHANGED <<usageCheck, thrown>>
    /\ UNCHANGED streamVars
    /\ UNCHANGED monVars
    /\ UNCHANGED pageVars
    /\ UNCHANGED overlapVars
    /\ UNCHANGED configVars
    /\ UNCHANGED lockVars
    /\ UNCHANGED flagVars
    /\ UNCHANGED canvasVars

\* the fetch rejects: callBuiltinGLM rethrows and the adapter's catch block wraps it
FetchFails ==
    /\ pc = "fetching"
    /\ thrown' = adapterError(fetchFailedText)
    /\ pc' = "failed"
    /\ UNCHANGED <<usageCheck, fetchCalls>>
    /\ UNCHANGED streamVars
    /\ UNCHANGED monVars
    /\ UNCHANGED pageVars
    /\ UNCHANGED overlapVars
    /\ UNCHANGED configVars
    /\ UNCHANGED lockVars
    /\ UNCHANGED flagVars
    /\ UNCHANGED canvasVars

\* the response is not ok
FetchHttpError(status) ==
    /\ pc = "fetching"
    /\ thrown' = adapterError(apiErrorText(status))
    /\ pc' = "failed"
    /\ UNCHANGED <<usageCheck, fetchCalls>>
    /\ UNCHANGED streamVars
    /\ UNCHANGED monVars
    /\ UNCHANGED pageVars
    /\ UNCHANGED overlapVars
    /\ UNCHANGED configVars
    /\ UNCHANGED lockVars
    /\ UNCHANGED flagVars
    /\ UNCHANGED canvasVars

\* the response is ok: createGLMStream starts reading it and processGLMStream is called
FetchOk(body) ==
    /\ pc = "fetching"
    /\ pc' = "streaming"
    /\ wire' = body
    /\ transport' = body
    /\ prodState' = "reading"
    /\ consState' = "start"
    /\ UNCHANGED <<style, buffer, partial, emitted, fullText, queue, delivered, streamState>>
    /\ UNCHANGED <<usageCheck, fetchCalls, thrown>>
    /\ UNCHANGED monVars
    /\ UNCHANGED pageVars
    /\ UNCHANGED overlapVars
    /\ UNCHANGED configVars
    /\ UNCHANGED lockVars
    /\ UNCHANGED flagVars
    /\ UNCHANGED canvasVars

\* processGLMStream settles the promise callBuiltinGLMAdapter returned
GenerationEnds ==
    /\ pc = "streaming"
    /\ consState \in {"returned", "threw"}
    /\ pc' = IF consState = "returned" THEN "completed" ELSE "failed"
    /\ UNCHANGED <<usageCheck, fetchCalls, thrown>>
    /\ UNCHANGED streamVars
    /\ UNCHANGED monVars
    /\ UNCHANGED pageVars
    /\ UNCHANGED overlapVars
    /\ UNCHANGED configVars
    /\ UNCHANGED lockVars
    /\ UNCHANGED flagVars
    /\ UNCHANGED canvasVars

\* ---------------------------------------------------------------- ConfigManager
\* no status fetched yet
NoStatus == [status |-> "none", time |-> null]

Statuses == {"ready", "disabled", "maintenance", "error"}

\* what getBuiltinStatus makes of the answer of GET /api/builtin-llm-meta: ready and
\* disabled are answered with 200; maintenance (503) and error (500) are not ok
statusOfResponse(s) == IF s \in {"ready", "disabled"} THEN s ELSE "error"

\* whether BUILTIN_GLM_BASE_URL and BUILTIN_GLM_API_KEY can be set when the service
\* answers s: disabled is the answer exactly when they are not, error is the answer
\* when the route threw
envConfigured(s) ==
    IF s = "disabled" THEN {FALSE} ELSE IF s = "error" THEN BOOLEAN ELSE {TRUE}

\* getBuiltinStatus: the status it can return and the cache it leaves. The cached
\* status is returned while it is less than 30 seconds old, which it can be only in
\* the minute in which it was fetched; otherwise the answer of the service is
\* cached and returned, or 'error' if the fetch rejects.
getBuiltinStatus ==
    (IF builtinStatusCache.status # "none" /\ builtinStatusCache.time = now
     THEN {[status |-> builtinStatusCache.status, cache |-> builtinStatusCache]}
     ELSE {})
    \cup {[status |-> st, cache |-> [status |-> st, time |-> now]] :
              st \in {statusOfResponse(serviceStatus), "error"}}

\* the environment or the provider's health changes
ServiceChanges(s) ==
    /\ s # serviceStatus
    /\ serviceStatus' = s
    /\ UNCHANGED <<isBuiltinActive, builtinStored, builtinStatusCache>>
    /\ UNCHANGED <<activeConfigId, activeStored, isLoaded>>
    /\ UNCHANGED monVars
    /\ UNCHANGED streamVars
    /\ UNCHANGED genVars
    /\ UNCHANGED pageVars
    /\ UNCHANGED overlapVars
    /\ UNCHANGED lockVars
    /\ UNCHANGED flagVars
    /\ UNCHANGED canvasVars

\* setBuiltinActive: throws unless the status is ready, else activates and persists
SetBuiltinActive ==
    /\ \E builtinStatus \in getBuiltinStatus :
          /\ builtinStatusCache' = builtinStatus.cache
          /\ IF builtinStatus.status # "ready"
             THEN UNCHANGED <<isBuiltinActive, builtinStored, activeConfigId>>
             ELSE /\ activeConfigId' = null
                  /\ isBuiltinActive' = TRUE
                  /\ builtinStored' = TRUE
    /\ UNCHANGED <<serviceStatus, activeStored, isLoaded>>
    /\ UNCHANGED monVars
    /\ UNCHANGED streamVars
    /\ UNCHANGED genVars
    /\ UNCHANGED pageVars
    /\ UNCHANGED overlapVars
    /\ UNCHANGED lockVars
    /\ UNCHANGED flagVars
    /\ UNCHANGED canvasVars

\* the ids of the configurations the user has stored, in the order of the list
configs == <<1, 2>>

\* the configuration getActiveConfig returns: 0 for the builtin one, the id of a user
\* configuration, null for none
getActiveConfig ==
    IF isBuiltinActive THEN 0
    ELSE IF activeConfigId = null THEN null
    ELSE activeConfigId

\* setActiveConfig(id) for a configuration of the user (getConfig loads the manager
\* first when needed): saveActiveConfigId persists the id only
SetActiveConfig(id) ==
    /\ activeConfigId' = id
    /\ isBuiltinActive' = FALSE
    /\ activeStored' = id
    /\ isLoaded' = TRUE
    /\ UNCHANGED <<builtinStored, builtinStatusCache, serviceStatus>>
    /\ UNCHANGED monVars
    /\ UNCHANGED streamVars
    /\ UNCHANGED genVars
    /\ UNCHANGED pageVars
    /\ UNCHANGED overlapVars
    /\ UNCHANGED lockVars
    /\ UNCHANGED flagVars
    /\ UNCHANGED canvasVars

\* the page is loaded: a ConfigManager is constructed and loadConfigs reads the flag
LoadConfigs ==
    /\ isBuiltinActive' = builtinStored
    /\ activeConfigId' = IF activeStored = null /\ ~builtinStored THEN configs[1]
                          ELSE activeStored
    /\ activeStored' = activeConfigId'
    /\ isLoaded' = TRUE
    /\ builtinStatusCache' = NoStatus
    /\ UNCHANGED <<builtinStored, serviceStatus>>
    /\ UNCHANGED monVars
    /\ UNCHANGED streamVars
    /\ UNCHANGED genVars
    /\ UNCHANGED pageVars
    /\ UNCHANGED overlapVars
    /\ UNCHANGED lockVars
    /\ UNCHANGED flagVars
    /\ UNCHANGED canvasVars

\* POST /api/generate hands the posted configuration to callLLM as it is
generateRoutePasses == TRUE

\* a generation with the builtin configuration active: getActiveConfig returns the
\* builtin configuration and callLLM calls callBuiltinGLMAdapter
BuiltinGenerate ==
    /\ isBuiltinActive
    /\ generateRoutePasses
    /\ \E configured \in envConfigured(serviceStatus) : StartGeneration(configured)

\* ---------------------------------------------------------------- code text and JSON
\* Generated code is a sequence of atoms, each an indivisible run of characters:
\*   "{" "}" "[" "]" ":" "," the structural characters, "QT" a double quote, "BSL" a
\*   backslash, "SP" a blank or tab, "LF" a line break, "FENCE" a run of three
\*   backticks, a digit, or a word (letters).
Digits == {"0", "1", "2"}

FenceTags == {"json", "javascript", "js"}

\* a parsed JSON value: a string or number with its characters, an array with its items,
\* an object with its keys and their values
JStr(s) == [t |-> "string", s |-> s, items |-> <<>>, keys |-> <<>>]

JNum(s) == [t |-> "number", s |-> s, items |-> <<>>, keys |-> <<>>]

JArr(items) == [t |-> "array", s |-> <<>>, items |-> items, keys |-> <<>>]

JObj(keys, items) == [t |-> "object", s |-> <<>>, items |-> items, keys |-> keys]

undefined == [t |-> "undefined", s |-> <<>>, items |-> <<>>, keys |-> <<>>]

SyntaxError == [ok |-> FALSE, val |-> undefined, next |-> 0]

RECURSIVE skipWs(_, _)
skipWs(text, i) == IF i <= Len(text) /\ text[i] \in whitespace THEN skipWs(text, i + 1) ELSE i

\* the index of the quote that closes the string whose first character is at i (0: none)
RECURSIVE stringEnd(_, _)
stringEnd(text, i) ==
    IF i > Len(text) THEN 0
    ELSE IF text[i] = "QT" THEN i
    ELSE IF text[i] = "BSL"
    THEN IF i + 1 <= Len(text) /\ text[i + 1] \in {"QT", "BSL"} THEN stringEnd(text, i + 2) ELSE 0
    ELSE IF text[i] = "LF" THEN 0
    ELSE stringEnd(text, i + 1)

RECURSIVE unescape(_)
unescape(s) ==
    IF s = <<>> THEN <<>>
    ELSE IF Head(s) = "BSL" THEN <<s[2]>> \o unescape(SubSeq(s, 3, Len(s)))
    ELSE <<Head(s)>> \o unescape(Tail(s))

RECURSIVE numberEnd(_, _)
numberEnd(text, i) ==
    IF i + 1 <= Len(text) /\ text[i + 1] \in Digits THEN numberEnd(text, i + 1) ELSE i

RECURSIVE parseValue(_, _)
RECURSIVE parseElements(_, _, _)
RECURSIVE parseMembers(_, _, _, _)
RECURSIVE memberAt(_, _)

parseValue(text, from) ==
    LET i == skipWs(text, from)
    IN  IF i > Len(text) THEN SyntaxError
        ELSE IF text[i] = "QT"
        THEN LET e == stringEnd(text, i + 1)
             IN  IF e = 0 THEN SyntaxError
                 ELSE [ok |-> TRUE, val |-> JStr(unescape(SubSeq(text, i + 1, e - 1))),
                       next |-> e + 1]
        ELSE IF text[i] \in Digits
        THEN LET e == numberEnd(text, i)
             IN  IF text[i] = "0" /\ e > i THEN SyntaxError
                 ELSE [ok |-> TRUE, val |-> JNum(SubSeq(text, i, e)), next |-> e + 1]
        ELSE IF text[i] = "["
        THEN LET j == skipWs(text, i + 1)
             IN  IF j <= Len(text) /\ text[j] = "]"
                 THEN [ok |-> TRUE, val |-> JArr(<<>>), next |-> j + 1]
                 ELSE parseElements(text, i + 1, <<>>)
        ELSE IF text[i] = "{"
        THEN LET j == skipWs(text, i + 1)
             IN  IF j <= Len(text) /\ text[j] = "}"
                 THEN [ok |-> TRUE, val |-> JObj(<<>>, <<>>), next |-> j + 1]
                 ELSE parseMembers(text, i + 1, <<>>, <<>>)
        ELSE SyntaxError

\* (v is the value parsed at `from`, j the index of the character after it)
parseElements(text, from, acc) ==
    CHOOSE r \in
        { IF ~v.ok \/ skipWs(text, v.next) > Len(text) THEN SyntaxError
          ELSE LET j == skipWs(text, v.next)
               IN  IF text[j] = "," THEN parseElements(text, j + 1, Append(acc, v.val))
                   ELSE IF text[j] = "]"
                   THEN [ok |-> TRUE, val |-> JArr(Append(acc, v.val)), next |-> j + 1]
                   ELSE SyntaxError
          : v \in {parseValue(text, from)} } : TRUE

\* the member that starts at `from`: its key, and its value with the index after it
memberAt(text, from) ==
    LET i == skipWs(text, from)
        e == IF i <= Len(text) /\ text[i] = "QT" THEN stringEnd(text, i + 1) ELSE 0
        c == skipWs(text, e + 1)
        v == IF e > 0 /\ c <= Len(text) /\ text[c] = ":" THEN parseValue(text, c + 1)
             ELSE SyntaxError
    IN  [ok |-> v.ok, val |-> v.val, next |-> v.next,
         key |-> IF v.ok THEN unescape(SubSeq(text, i + 1, e - 1)) ELSE <<>>]

parseMembers(text, from, ks, vs) ==
    CHOOSE r \in
        { IF ~m.ok \/ skipWs(text, m.next) > Len(text) THEN SyntaxError
          ELSE LET j == skipWs(text, m.next)
               IN  IF text[j] = ","
                   THEN parseMembers(text, j + 1, Append(ks, m.key), Append(vs, m.val))
                   ELSE IF text[j] = "}"
                   THEN [ok |-> TRUE, val |-> JObj(Append(ks, m.key), Append(vs, m.val)),
                         next |-> j + 1]
                   ELSE SyntaxError
          : m \in {memberAt(text, from)} } : TRUE

\* JSON.parse(text): the value, or ok = FALSE where it throws a SyntaxError
parseDocument(text) ==
    LET v == parseValue(text, 1)
    IN  IF v.ok /\ skipWs(text, v.next) = Len(text) + 1
        THEN [ok |-> TRUE, val |-> v.val]
        ELSE [ok |-> FALSE, val |-> undefined]

JSONparse(text) == CHOOSE r \in {parseDocument(t) : t \in {text}} : TRUE

\* value[key] of a parsed value (the last of equal keys counts)
get(value, key) ==
    IF value.t = "object" /\ \E i \in 1..Len(value.keys) : value.keys[i] = key
    THEN value.items[CHOOSE i \in 1..Len(value.keys) :
                        /\ value.keys[i] = key
                        /\ \A j \in (i + 1)..Len(value.keys) : value.keys[j] # key]
    ELSE undefined

isArray(value) == value.t = "array"

\* ---------------------------------------------------------------- postProcessExcalidrawCode
\* code.replace(/^```(?:json|javascript|js)?\s*\n?/i, '')
stripFenceOpen(code) ==
    IF startsWith(code, "FENCE")
    THEN IF Len(code) >= 2 /\ code[2] \in FenceTags
         THEN trimStart(SubSeq(code, 3, Len(code)))
         ELSE trimStart(Tail(code))
    ELSE code

\* code.replace(/\n?```\s*$/, '')
stripFenceClose(code) ==
    LET e == trimEnd(code)
    IN  IF e # <<>> /\ e[Len(e)] = "FENCE"
        THEN IF Len(e) >= 2 /\ e[Len(e) - 1] = "LF"
             THEN SubSeq(e, 1, Len(e) - 2)
             ELSE SubSeq(e, 1, Len(e) - 1)
        ELSE code

NoSnippet == [found |-> FALSE, text |-> <<>>]

closes(lastOpen, char) == (lastOpen = "{" /\ char = "}") \/ (lastOpen = "[" /\ char = "]")

\* the scan of extractBalancedJsonSnippet from index i on
RECURSIVE balancedScan(_, _, _, _, _, _)
balancedScan(text, i, stack, startIndex, inString, escapeNext) ==
    IF i > Len(text) THEN NoSnippet
    ELSE IF escapeNext THEN balancedScan(text, i + 1, stack, startIndex, inString, FALSE)
    ELSE IF text[i] = "BSL" THEN balancedScan(text, i + 1, stack, startIndex, inString, TRUE)
    ELSE IF text[i] = "QT" THEN balancedScan(text, i + 1, stack, startIndex, ~inString, FALSE)
    ELSE IF inString THEN balancedScan(text, i + 1, stack, startIndex, inString, FALSE)
    ELSE IF text[i] \in {"{", "["}
    THEN balancedScan(text, i + 1, Append(stack, text[i]),
                      IF stack = <<>> THEN i ELSE startIndex, inString, FALSE)
    ELSE IF text[i] \in {"}", "]"}
    THEN IF stack # <<>> /\ closes(stack[Len(stack)], text[i])
         THEN IF Len(stack) = 1 /\ startIndex # -1
              THEN [found |-> TRUE, text |-> SubSeq(text, startIndex, i)]
              ELSE balancedScan(text, i + 1, SubSeq(stack, 1, Len(stack) - 1), startIndex,
                                inString, FALSE)
         ELSE IF stack # <<>>
         THEN balancedScan(text, i + 1, <<>>, -1, inString, FALSE)
         ELSE balancedScan(text, i + 1, stack, startIndex, inString, FALSE)
    ELSE balancedScan(text, i + 1, stack, startIndex, inString, FALSE)

\* a scan that skips a closer that matches nothing and keeps its stack
RECURSIVE scanWithoutReset(_, _, _, _, _, _)
scanWithoutReset(text, i, stack, startIndex, inString, escapeNext) ==
    IF i > Len(text) THEN NoSnippet
    ELSE IF escapeNext THEN scanWithoutReset(text, i + 1, stack, startIndex, inString, FALSE)
    ELSE IF text[i] = "BSL" THEN scanWithoutReset(text, i + 1, stack, startIndex, inString, TRUE)
    ELSE IF text[i] = "QT" THEN scanWithoutReset(text, i + 1, stack, startIndex, ~inString, FALSE)
    ELSE IF inString THEN scanWithoutReset(text, i + 1, stack, startIndex, inString, FALSE)
    ELSE IF text[i] \in {"{", "["}
    THEN scanWithoutReset(text, i + 1, Append(stack, text[i]),
                          IF stack = <<>> THEN i ELSE startIndex, inString, FALSE)
    ELSE IF text[i] \in {"}", "]"} /\ stack # <<>> /\ closes(stack[Len(stack)], text[i])
    THEN IF Len(stack) = 1
         THEN [found |-> TRUE, text |-> SubSeq(text, startIndex, i)]
         ELSE scanWithoutReset(text, i + 1, SubSeq(stack, 1, Len(stack) - 1), startIndex,
                               inString, FALSE)
    ELSE scanWithoutReset(text, i + 1, stack, startIndex, inString, FALSE)

extractWithoutReset(text) ==
    CHOOSE r \in {scanWithoutReset(t, 1, <<>>, -1, FALSE, FALSE) : t \in {text}} : TRUE

extractBalancedJsonSnippet(text) ==
    CHOOSE r \in {balancedScan(t, 1, <<>>, -1, FALSE, FALSE) : t \in {text}} : TRUE

indexOfFirst(text, char) ==
    IF \E i \in 1..Len(text) : text[i] = char
    THEN CHOOSE i \in 1..Len(text) : text[i] = char /\ \A j \in 1..(i - 1) : text[j] # char
    ELSE 0

indexOfLast(text, char) ==
    IF \E i \in 1..Len(text) : text[i] = char
    THEN CHOOSE i \in 1..Len(text) : text[i] = char /\ \A j \in (i + 1)..Len(text) : text[j] # char
    ELSE 0

\* a lazy search: first opener to the first closer after it
lazyMatch(text, opener, closer) ==
    IF indexOfFirst(text, opener) > 0 /\ indexOfLast(text, closer) > indexOfFirst(text, opener)
    THEN [found |-> TRUE,
          text |-> SubSeq(text, indexOfFirst(text, opener),
                          CHOOSE j \in (indexOfFirst(text, opener) + 1)..Len(text) :
                              /\ text[j] = closer
                              /\ \A k \in (indexOfFirst(text, opener) + 1)..(j - 1) :
                                     text[k] # closer)]
    ELSE NoSnippet

\* text.match(/\{[\s\S]*\}/) and text.match(/\[[\s\S]*\]/): first opener to last closer
widestMatch(text, opener, closer) ==
    IF indexOfFirst(text, opener) > 0 /\ indexOfLast(text, closer) > indexOfFirst(text, opener)
    THEN [found |-> TRUE,
          text |-> SubSeq(text, indexOfFirst(text, opener), indexOfLast(text, closer))]
    ELSE NoSnippet

\* jsonString.slice(i + 1).match(/^\s*(.)/): the character after the white space; when
\* only white space follows, the dot backtracks onto its last character that is not a
\* line break; '' when there is none
RECURSIVE lastNonBreak(_)
lastNonBreak(s) ==
    IF s = <<>> THEN ""
    ELSE IF s[Len(s)] # "LF" THEN s[Len(s)]
    ELSE lastNonBreak(SubSeq(s, 1, Len(s) - 1))

\* a look-ahead that does not skip the white space
nextCharacter(rest) == IF rest # <<>> THEN Head(rest) ELSE ""

nextNonWhitespace(rest) ==
    IF trimStart(rest) # <<>> THEN Head(trimStart(rest)) ELSE lastNonBreak(rest)

\* the scan of fixUnescapedQuotes from index i on
RECURSIVE fixScan(_, _, _, _)
fixScan(jsonString, i, inString, escapeNext) ==
    IF i > Len(jsonString) THEN <<>>
    ELSE IF escapeNext THEN <<jsonString[i]>> \o fixScan(jsonString, i + 1, inString, FALSE)
    ELSE IF jsonString[i] = "BSL" THEN <<"BSL">> \o fixScan(jsonString, i + 1, inString, TRUE)
    ELSE IF jsonString[i] = "QT"
    THEN IF ~inString THEN <<"QT">> \o fixScan(jsonString, i + 1, TRUE, FALSE)
         ELSE IF nextNonWhitespace(SubSeq(jsonString, i + 1, Len(jsonString)))
                    \in {":", ",", "}", "]", ""}
         THEN <<"QT">> \o fixScan(jsonString, i + 1, FALSE, FALSE)
         ELSE <<"BSL", "QT">> \o fixScan(jsonString, i + 1, TRUE, FALSE)
    ELSE <<jsonString[i]>> \o fixScan(jsonString, i + 1, inString, FALSE)

fixUnescapedQuotes(jsonString) ==
    CHOOSE r \in {fixScan(t, 1, FALSE, FALSE) : t \in {jsonString}} : TRUE

\* the steps of postProcessExcalidrawCode on a non-empty string
processedOf(code) == trim(stripFenceClose(stripFenceOpen(trim(code))))

\* (balanced, objectMatch and arrayMatch are the results of the three searches)
jsonContentOf(processed) ==
    CHOOSE r \in
        { IF balanced.found THEN balanced.text
          ELSE IF ~startsWith(processed, "{") /\ ~startsWith(processed, "[")
          THEN IF objectMatch.found THEN objectMatch.text
               ELSE IF arrayMatch.found THEN arrayMatch.text
               ELSE processed
          ELSE processed
          : balanced \in {extractBalancedJsonSnippet(processed)},
            objectMatch \in {widestMatch(processed, "{", "}")},
            arrayMatch \in {widestMatch(processed, "[", "]")} } : TRUE

\* the direct parse of jsonContent, the quote repair and the value returned
repairOf(processed, balancedSnippet, jsonContent) ==
    CHOOSE r \in
        { [processed |-> processed,
           balancedSnippet |-> balancedSnippet,
           jsonContent |-> jsonContent,
           directOk |-> direct.ok,
           fixed |-> fixed,
           returned |-> IF direct.ok THEN jsonContent
                        ELSE IF JSONparse(fixed).ok THEN fixed
                        ELSE processed]
          : direct \in {JSONparse(jsonContent)},
            fixed \in {fixUnescapedQuotes(jsonContent)} } : TRUE

extractionOf(processed) ==
    CHOOSE r \in
        { repairOf(processed, balancedSnippet, jsonContent)
          : balancedSnippet \in {extractBalancedJsonSnippet(processed)},
            jsonContent \in {jsonContentOf(processed)} } : TRUE

\* every intermediate value of postProcessExcalidrawCode on a non-empty string
postProcessSteps(code) ==
    CHOOSE r \in {extractionOf(processed) : processed \in {processedOf(code)}} : TRUE

postProcessExcalidrawCode(code) ==
    IF code = <<>> THEN code ELSE postProcessSteps(code).returned

\* ---------------------------------------------------------------- analyzeJsonStructure
closingBracketMap(opener) == IF opener = "{" THEN "}" ELSE "]"

RECURSIVE reverse(_)
reverse(s) == IF s = <<>> THEN <<>> ELSE reverse(Tail(s)) \o <<Head(s)>>

\* the scan of analyzeJsonStructure from index i on: the stack and the mismatch flag
RECURSIVE analyzeScan(_, _, _, _, _, _)
analyzeScan(text, i, stack, inString, escapeNext, hasMismatchedClosing) ==
    IF i > Len(text) THEN [stack |-> stack, hasMismatchedClosing |-> hasMismatchedClosing]
    ELSE IF escapeNext
    THEN analyzeScan(text, i + 1, stack, inString, FALSE, hasMismatchedClosing)
    ELSE IF text[i] = "BSL"
    THEN analyzeScan(text, i + 1, stack, inString, TRUE, hasMismatchedClosing)
    ELSE IF text[i] = "QT"
    THEN analyzeScan(text, i + 1, stack, ~inString, FALSE, hasMismatchedClosing)
    ELSE IF inString
    THEN analyzeScan(text, i + 1, stack, inString, FALSE, hasMismatchedClosing)
    ELSE IF text[i] \in {"{", "["}
    THEN analyzeScan(text, i + 1, Append(stack, text[i]), inString, FALSE, hasMismatchedClosing)
    ELSE IF text[i] \in {"}", "]"}
    THEN IF stack # <<>> /\ closes(stack[Len(stack)], text[i])
         THEN analyzeScan(text, i + 1, SubSeq(stack, 1, Len(stack) - 1), inString, FALSE,
                          hasMismatchedClosing)
         ELSE analyzeScan(text, i + 1, stack, inString, FALSE, TRUE)
    ELSE analyzeScan(text, i + 1, stack, inString, FALSE, hasMismatchedClosing)

\* pending closers listed in the order their brackets were opened
analyzedInOpeningOrder(r) ==
    [isBalanced |-> r.stack = <<>> /\ ~r.hasMismatchedClosing,
     pendingClosers |-> [k \in 1..Len(r.stack) |-> closingBracketMap(r.stack[k])],
     pendingCount |-> Len(r.stack),
     hasMismatchedClosing |-> r.hasMismatchedClosing]

analyzedOf(r) ==
    [isBalanced |-> r.stack = <<>> /\ ~r.hasMismatchedClosing,
     pendingClosers |-> [k \in 1..Len(r.stack) |-> closingBracketMap(reverse(r.stack)[k])],
     pendingCount |-> Len(r.stack),
     hasMismatchedClosing |-> r.hasMismatchedClosing]

analyzeJsonStructure(text) ==
    CHOOSE a \in {analyzedOf(r) : r \in {analyzeScan(t, 1, <<>>, FALSE, FALSE, FALSE) : t \in {text}}}
        : TRUE

\* ---------------------------------------------------------------- inspectParsedElements
NoElements == [found |-> FALSE, elements |-> <<>>, source |-> "null"]

Found(array, source) == [found |-> TRUE, elements |-> array, source |-> source]

firstOf(value) == IF isArray(value) /\ value.items # <<>> THEN value.items[1] ELSE undefined

\* an extractor that looks into the data array before the elements field
inspectDataFirst(value) ==
    IF isArray(value) THEN Found(value.items, "array")
    ELSE IF value.t = "object"
    THEN IF isArray(get(value, <<"data">>))
              /\ isArray(get(firstOf(get(value, <<"data">>)), <<"elements">>))
         THEN Found(get(firstOf(get(value, <<"data">>)), <<"elements">>).items,
                    "parsed.data[0].elements")
         ELSE IF isArray(get(value, <<"elements">>))
         THEN Found(get(value, <<"elements">>).items, "parsed.elements")
         ELSE IF isArray(get(get(value, <<"data">>), <<"elements">>))
         THEN Found(get(get(value, <<"data">>), <<"elements">>).items, "parsed.data.elements")
         ELSE NoElements
    ELSE NoElements

inspectParsedElements(value) ==
    IF isArray(value) THEN Found(value.items, "array")
    ELSE IF value.t = "object"
    THEN IF isArray(get(value, <<"elements">>))
         THEN Found(get(value, <<"elements">>).items, "parsed.elements")
         ELSE IF isArray(get(value, <<"data">>))
                   /\ isArray(get(firstOf(get(value, <<"data">>)), <<"elements">>))
         THEN Found(get(firstOf(get(value, <<"data">>)), <<"elements">>).items,
                    "parsed.data[0].elements")
         ELSE IF isArray(get(get(value, <<"data">>), <<"elements">>))
         THEN Found(get(get(value, <<"data">>), <<"elements">>).items, "parsed.data.elements")
         ELSE NoElements
    ELSE NoElements

\* ---------------------------------------------------------------- tryParseAndApply
\* what tryParseAndApply computes on the code: the structure analysis, the direct parse and
\* its inspection, and the element array found by the direct parse, else by the widest
\* array match, else by appending the pending closers
inspectedOf(parseResult) ==
    IF parseResult.ok THEN inspectParsedElements(parseResult.val) ELSE NoElements

tryParseResult(structureAnalysis, direct, byRegex, completed) ==
    [structureAnalysis |-> structureAnalysis,
     directOk |-> direct.ok,
     parsed |-> direct.val,
     parsedInfo |-> inspectedOf(direct),
     found |-> inspectedOf(direct).found \/ byRegex.found \/ completed.found,
     elementsArray |-> IF inspectedOf(direct).found THEN inspectedOf(direct).elements
                       ELSE IF byRegex.found THEN byRegex.elements
                       ELSE completed.elements,
     via |-> IF inspectedOf(direct).found THEN "direct"
             ELSE IF byRegex.found THEN "regex"
             ELSE IF completed.found THEN "completion" ELSE "none"]

tryParseWith(cleanedCode, structureAnalysis, arrayMatch) ==
    CHOOSE r \in
        { tryParseResult(structureAnalysis, direct, byRegex, completed)
          : direct \in {JSONparse(cleanedCode)},
            byRegex \in {IF arrayMatch.found THEN inspectedOf(JSONparse(arrayMatch.text))
                         ELSE NoElements},
            completed \in {IF structureAnalysis.pendingClosers # <<>>
                           THEN inspectedOf(JSONparse(cleanedCode
                                                      \o structureAnalysis.pendingClosers))
                           ELSE NoElements} } : TRUE

tryParseCleaned(cleanedCode) ==
    CHOOSE r \in
        { tryParseWith(cleanedCode, structureAnalysis, arrayMatch)
          : structureAnalysis \in {analyzeJsonStructure(cleanedCode)},
            arrayMatch \in {widestMatch(cleanedCode, "[", "]")} } : TRUE

tryParse(code) == CHOOSE r \in {tryParseCleaned(cleanedCode) : cleanedCode \in {trim(code)}} : TRUE

\* the canvas, the pushes and the JSON error after tryParseAndApply(code)
applyTo(page, code) ==
    CHOOSE r \in
        { IF result.found
          THEN [page EXCEPT !.elements = result.elementsArray,
                            !.pushed = Append(@, result.elementsArray),
                            !.jsonError = "null"]
          ELSE [page EXCEPT !.jsonError = "no valid JSON array or element object found"]
          : result \in {tryParse(code)} } : TRUE

NoOut == [op |-> "none", arg |-> <<>>, result |-> <<>>]

postProcessCall(code) ==
    [op |-> "postProcessExcalidrawCode", arg |-> code, result |-> postProcessSteps(code)]

tryParseCall(code) == [op |-> "tryParseAndApply", arg |-> code, result |-> tryParse(code)]

\* ---------------------------------------------------------------- handleSendMessage
\* The payload of a `data: ` line of /api/generate: "C" followed by the characters of a
\* text stands for {"content": text}, "E" followed by a message for {"error": message};
\* anything else is text JSON.parse rejects with an `Unexpected token` SyntaxError.
pageParses(payload) ==
    \/ startsWith(payload, "C")
    \/ startsWith(payload, "E") /\ Len(payload) = 2

pageContent(payload) == IF startsWith(payload, "C") THEN Tail(payload) ELSE <<>>

pageErrorOf(payload) == IF startsWith(payload, "E") THEN payload[2] ELSE ""

\* the page state the line loop works on
pageRecord ==
    [accumulatedCode |-> accumulatedCode, generatedCode |-> generatedCode,
     elements |-> elements, pushed |-> pushed, apiError |-> apiError,
     jsonError |-> jsonError, out |-> out]

\* a line loop that also applies the repaired code to the canvas on every fragment
pageLineApplies(page, line) ==
    IF trim(line) = <<>> \/ trim(line) = <<"DATA", "DONE">> THEN page
    ELSE IF startsWith(line, "DATA") /\ pageParses(Tail(line))
    THEN IF pageContent(Tail(line)) # <<>>
         THEN CHOOSE r \in
                  { applyTo([page EXCEPT !.accumulatedCode = @ \o pageContent(Tail(line)),
                                         !.generatedCode = call.result.returned,
                                         !.out = call], call.result.returned)
                    : call \in {postProcessCall(page.accumulatedCode
                                                \o pageContent(Tail(line)))} } : TRUE
         ELSE IF pageErrorOf(Tail(line)) # ""
         THEN [page EXCEPT !.apiError = <<"stream parse error: ", pageErrorOf(Tail(line))>>]
         ELSE page
    ELSE page

\* a line loop that keeps the repaired code as the code accumulated so far
pageLineKeepsRepaired(page, line) ==
    IF trim(line) = <<>> \/ trim(line) = <<"DATA", "DONE">> THEN page
    ELSE IF startsWith(line, "DATA") /\ pageParses(Tail(line))
    THEN IF pageContent(Tail(line)) # <<>>
         THEN CHOOSE r \in
                  { [page EXCEPT !.accumulatedCode = call.result.returned,
                                 !.generatedCode = call.result.returned,
                                 !.out = call]
                    : call \in {postProcessCall(page.accumulatedCode
                                                \o pageContent(Tail(line)))} } : TRUE
         ELSE IF pageErrorOf(Tail(line)) # ""
         THEN [page EXCEPT !.apiError = <<"stream parse error: ", pageErrorOf(Tail(line))>>]
         ELSE page
    ELSE page

\* the body of the line loop: a content frame is appended and the repaired code set in the
\* editor; the Error thrown for an error frame is caught by the catch around JSON.parse,
\* which sets the API error and lets the loop go on
pageLine(page, line) ==
    IF trim(line) = <<>> \/ trim(line) = <<"DATA", "DONE">> THEN page
    ELSE IF startsWith(line, "DATA") /\ pageParses(Tail(line))
    THEN IF pageContent(Tail(line)) # <<>>
         THEN CHOOSE r \in
                  { [page EXCEPT !.accumulatedCode = @ \o pageContent(Tail(line)),
                                 !.generatedCode = call.result.returned,
                                 !.out = call]
                    : call \in {postProcessCall(page.accumulatedCode
                                                \o pageContent(Tail(line)))} } : TRUE
         ELSE IF pageErrorOf(Tail(line)) # ""
         THEN [page EXCEPT !.apiError = <<"stream parse error: ", pageErrorOf(Tail(line))>>]
         ELSE page
    ELSE page

RECURSIVE pageLines(_, _)
pageLines(page, lines) ==
    IF lines = <<>> THEN page
    ELSE CHOOSE r \in {pageLines(p, rest) : p \in {pageLine(page, Head(lines))},
                                            rest \in {Tail(lines)}} : TRUE

\* useState(false)
FlagIdle == isGenerating = FALSE

\* handleSendMessage up to its fetch: the flags and errors are reset
SendMessage ==
    /\ pagePc \in {"idle", "completed", "failed"}
    /\ pagePc' = "fetching"
    /\ apiError' = <<>>
    /\ jsonError' = "null"
    /\ pushed' = <<>>
    /\ UNCHANGED <<accumulatedCode, generatedCode, elements, out>>
    /\ UNCHANGED streamVars
    /\ UNCHANGED monVars
    /\ UNCHANGED genVars
    /\ UNCHANGED overlapVars
    /\ UNCHANGED configVars
    /\ UNCHANGED lockVars
    /\ isGenerating' = TRUE
    /\ UNCHANGED canvasVars

\* the fetch rejects ("network"), or the response is not ok ("status"): the catch block
\* sets the API error
ResponseFails(message) ==
    /\ pagePc = "fetching"
    /\ pagePc' = "failed"
    /\ apiError' = <<message>>
    /\ UNCHANGED <<accumulatedCode, generatedCode, elements, pushed, jsonError, out>>
    /\ UNCHANGED streamVars
    /\ UNCHANGED monVars
    /\ UNCHANGED genVars
    /\ UNCHANGED overlapVars
    /\ UNCHANGED configVars
    /\ UNCHANGED lockVars
    /\ isGenerating' = FALSE
    /\ UNCHANGED canvasVars

\* the response is ok: the read loop starts with an empty accumulatedCode and buffer
ResponseOk(body) ==
    /\ pagePc = "fetching"
    /\ pagePc' = "streaming"
    /\ style' = "page"
    /\ wire' = body
    /\ transport' = body
    /\ buffer' = <<>>
    /\ partial' = FALSE
    /\ prodState' = "reading"
    /\ accumulatedCode' = <<>>
    /\ UNCHANGED <<emitted, fullText, queue, delivered, streamState, consState>>
    /\ UNCHANGED <<generatedCode, elements, pushed, apiError, jsonError, out>>
    /\ UNCHANGED monVars
    /\ UNCHANGED genVars
    /\ UNCHANGED overlapVars
    /\ UNCHANGED configVars
    /\ UNCHANGED lockVars
    /\ UNCHANGED flagVars
    /\ UNCHANGED canvasVars

\* one pass of the read loop of handleSendMessage
PageRead ==
    /\ pagePc = "streaming"
    /\ transport # <<>>
    /\ \E n \in 1..Len(transport) :
       \E text \in {buffer \o SubSeq(transport, 1, n)} :
       \E page \in {pageLines(pageRecord, splitLines(text))} :
              /\ transport' = SubSeq(transport, n + 1, Len(transport))
              /\ buffer' = lastPiece(text)
              /\ partial' = (partial \/ buffer' # <<>>)
              /\ accumulatedCode' = page.accumulatedCode
              /\ generatedCode' = page.generatedCode
              /\ apiError' = page.apiError
              /\ elements' = page.elements
              /\ pushed' = page.pushed
              /\ jsonError' = page.jsonError
              /\ out' = page.out
    /\ UNCHANGED pagePc
    /\ UNCHANGED <<style, wire, emitted, fullText, queue, delivered, streamState, prodState,
                   consState>>
    /\ UNCHANGED monVars
    /\ UNCHANGED genVars
    /\ UNCHANGED overlapVars
    /\ UNCHANGED configVars
    /\ UNCHANGED lockVars
    /\ UNCHANGED flagVars
    /\ UNCHANGED canvasVars

\* optimizeExcalidrawCode: the code unchanged, or serialised again
optimizeExcalidrawCode(code) == {code, code \o <<"LF">>}

\* an end of stream whose last render is that of the code before its optimization
PageDoneRendersUnoptimized ==
    /\ pagePc = "streaming"
    /\ transport = <<>>
    /\ \E processedCode \in {postProcessExcalidrawCode(accumulatedCode)} :
       \E optimizedCode \in optimizeExcalidrawCode(processedCode) :
       \E page \in {applyTo(pageRecord, processedCode)} :
              /\ generatedCode' = optimizedCode
              /\ elements' = page.elements
              /\ pushed' = page.pushed
              /\ jsonError' = page.jsonError
              /\ out' = tryParseCall(processedCode)
    /\ pagePc' = "completed"
    /\ prodState' = "done"
    /\ UNCHANGED <<accumulatedCode, apiError>>
    /\ UNCHANGED <<style, transport, wire, buffer, partial, emitted, fullText, queue, delivered,
                   streamState, consState>>
    /\ UNCHANGED monVars
    /\ UNCHANGED genVars
    /\ UNCHANGED overlapVars
    /\ UNCHANGED configVars
    /\ UNCHANGED lockVars
    /\ isGenerating' = FALSE
    /\ UNCHANGED canvasVars

\* the read reports done: the final pass, the optimization and the final render
PageDone ==
    /\ pagePc = "streaming"
    /\ transport = <<>>
    /\ \E processedCode \in {postProcessExcalidrawCode(accumulatedCode)} :
       \E optimizedCode \in optimizeExcalidrawCode(processedCode) :
       \E rendered \in {applyTo(pageRecord, processedCode)} :
       \E page \in {applyTo(rendered, optimizedCode)} :
              /\ generatedCode' = optimizedCode
              /\ elements' = page.elements
              /\ pushed' = page.pushed
              /\ jsonError' = page.jsonError
              /\ out' = tryParseCall(optimizedCode)
    /\ pagePc' = "completed"
    /\ prodState' = "done"
    /\ UNCHANGED <<accumulatedCode, apiError>>
    /\ UNCHANGED <<style, transport, wire, buffer, partial, emitted, fullText, queue, delivered,
                   streamState, consState>>
    /\ UNCHANGED monVars
    /\ UNCHANGED genVars
    /\ UNCHANGED overlapVars
    /\ UNCHANGED configVars
    /\ UNCHANGED lockVars
    /\ isGenerating' = FALSE
    /\ UNCHANGED canvasVars

\* the chat panel lets a message be sent while a generation is being read
ChatSendsWhileGenerating == TRUE

\* handleSendMessage called while an earlier call is in its read loop: nothing stops
\* the earlier call, which keeps its reader, its buffer and its accumulatedCode
SendMessageAgain ==
    /\ ChatSendsWhileGenerating
    /\ pagePc = "streaming"
    /\ prior.state = "none"
    /\ prior' = [state |-> "streaming", transport |-> transport, buffer |-> buffer,
                 accumulatedCode |-> accumulatedCode]
    /\ pagePc' = "fetching"
    /\ apiError' = <<>>
    /\ jsonError' = "null"
    /\ pushed' = <<>>
    /\ UNCHANGED <<accumulatedCode, generatedCode, elements, out>>
    /\ UNCHANGED streamVars
    /\ UNCHANGED monVars
    /\ UNCHANGED genVars
    /\ UNCHANGED configVars
    /\ UNCHANGED lockVars
    /\ isGenerating' = TRUE
    /\ UNCHANGED canvasVars

\* one pass of the read loop of the earlier call
PriorRead ==
    /\ prior.state = "streaming"
    /\ prior.transport # <<>>
    /\ \E n \in 1..Len(prior.transport) :
       \E text \in {prior.buffer \o SubSeq(prior.transport, 1, n)} :
       \E page \in {pageLines([pageRecord EXCEPT !.accumulatedCode = prior.accumulatedCode],
                              splitLines(text))} :
              /\ prior' = [prior EXCEPT
                              !.transport = SubSeq(prior.transport, n + 1, Len(prior.transport)),
                              !.buffer = lastPiece(text),
                              !.accumulatedCode = page.accumulatedCode]
              /\ generatedCode' = page.generatedCode
              /\ apiError' = page.apiError
              /\ elements' = page.elements
              /\ pushed' = page.pushed
              /\ jsonError' = page.jsonError
              /\ out' = page.out
    /\ UNCHANGED <<accumulatedCode, pagePc>>
    /\ UNCHANGED streamVars
    /\ UNCHANGED monVars
    /\ UNCHANGED genVars
    /\ UNCHANGED configVars
    /\ UNCHANGED lockVars
    /\ UNCHANGED flagVars
    /\ UNCHANGED canvasVars

\* the read of the earlier call reports done: its final pass and final render
PriorDone ==
    /\ prior.state = "streaming"
    /\ prior.transport = <<>>
    /\ \E processedCode \in {postProcessExcalidrawCode(prior.accumulatedCode)} :
       \E optimizedCode \in optimizeExcalidrawCode(processedCode) :
       \E rendered \in {applyTo(pageRecord, processedCode)} :
       \E page \in {applyTo(rendered, optimizedCode)} :
              /\ generatedCode' = optimizedCode
              /\ elements' = page.elements
              /\ pushed' = page.pushed
              /\ jsonError' = page.jsonError
              /\ out' = tryParseCall(optimizedCode)
    /\ prior' = [prior EXCEPT !.state = "done"]
    /\ UNCHANGED <<accumulatedCode, apiError, pagePc>>
    /\ UNCHANGED streamVars
    /\ UNCHANGED monVars
    /\ UNCHANGED genVars
    /\ UNCHANGED configVars
    /\ UNCHANGED lockVars
    /\ isGenerating' = FALSE
    /\ UNCHANGED canvasVars

\* ---------------------------------------------------------------- the code editor
MaxApplies == 2

\* postProcessExcalidrawCode applied to the code accumulated so far, as the line loop does
PostProcess ==
    /\ pagePc = "idle"
    /\ accumulatedCode # <<>>
    /\ out.op = "none"
    /\ \E call \in {postProcessCall(accumulatedCode)} :
          /\ generatedCode' = call.result.returned
          /\ out' = call
    /\ UNCHANGED <<accumulatedCode, elements, pushed, apiError, jsonError, pagePc>>
    /\ UNCHANGED streamVars
    /\ UNCHANGED monVars
    /\ UNCHANGED genVars
    /\ UNCHANGED overlapVars
    /\ UNCHANGED configVars
    /\ UNCHANGED lockVars
    /\ UNCHANGED flagVars
    /\ UNCHANGED canvasVars

\* CodeEditor onChange: the user replaces the code
EditCode(code) ==
    /\ pagePc = "idle"
    /\ accumulatedCode = <<>>
    /\ generatedCode' = code
    /\ UNCHANGED <<accumulatedCode, elements, pushed, apiError, jsonError, pagePc, out>>
    /\ UNCHANGED streamVars
    /\ UNCHANGED monVars
    /\ UNCHANGED genVars
    /\ UNCHANGED overlapVars
    /\ UNCHANGED configVars
    /\ UNCHANGED lockVars
    /\ UNCHANGED flagVars
    /\ UNCHANGED canvasVars

\* handleApplyCode: tryParseAndApply on the code of the editor
HandleApplyCode ==
    /\ pagePc = "idle"
    /\ Len(pushed) < MaxApplies
    /\ \E page \in {applyTo(pageRecord, generatedCode)} :
           /\ elements' = page.elements
           /\ pushed' = page.pushed
           /\ jsonError' = page.jsonError
    /\ out' = tryParseCall(generatedCode)
    /\ UNCHANGED <<accumulatedCode, generatedCode, apiError, pagePc>>
    /\ UNCHANGED streamVars
    /\ UNCHANGED monVars
    /\ UNCHANGED genVars
    /\ UNCHANGED overlapVars
    /\ UNCHANGED configVars
    /\ UNCHANGED lockVars
    /\ UNCHANGED flagVars
    /\ UNCHANGED canvasVars

\* ---------------------------------------------------------------- initial states
Styles == {"openai", "anthropic", "builtin-glm"}

\* the lines a provider of each style may send, a malformed payload among them
LineKinds(st) ==
    CASE st = "openai" ->
            {<<"DATA", "cA">>, <<"DATA", "cB">>, <<"DATA", "DONE">>, <<"DATA", "bad">>, <<>>}
      [] st = "anthropic" ->
            {<<"DATA", "tA">>, <<"DATA", "tB">>, <<"DATA", "tStart">>, <<"DATA", "DONE">>,
             <<"DATA", "bad">>}
      [] st = "builtin-glm" ->
            {<<"DATA", "cA">>, <<"DATA", "cB">>, <<"DATA", "DONE">>, <<"DATA", "bad">>,
             <<"DATA", "use">>, <<"ERR", "raw">>, <<"ERR", "emsg">>}

RECURSIVE joinLines(_)
joinLines(lines) ==
    IF lines = <<>> THEN <<>> ELSE Head(lines) \o <<"NL">> \o joinLines(Tail(lines))

\* response bodies of up to MaxLines lines; the last line may lack its newline
Wires(st) ==
    LET seqs == UNION {[1..k -> LineKinds(st)] : k \in 0..MaxLines}
    IN  {joinLines(ls) : ls \in seqs}
        \cup {SubSeq(joinLines(ls), 1, Len(joinLines(ls)) - 1) : ls \in seqs \ {<<>>}}

StartTimes == {57}

TokenDeltas == {0, 2500}

NoCall(s) == [op |-> "constructor", arg |-> null, at |-> s.lastReset, before |-> s, result |-> null]

\* ---------------------------------------------------------------- ExcalidrawCanvas
\* Math.round of a coordinate given in quarters
round(quarters) == (quarters + 2) \div 4

\* createElementsSignature: the id, type and rounded position of each element, in order
\* (the empty sequence stands for the empty string)
createElementsSignature(array) ==
    [k \in 1..Len(array) |-> <<array[k].id, array[k].type, round(array[k].x), round(array[k].y)>>]

NoTimer == [set |-> FALSE, elements |-> <<>>]

\* the component as mounted: no elements, convert function and API not yet there
NoCanvas ==
    [elements |-> <<>>, convert |-> FALSE, api |-> FALSE, converted |-> <<>>,
     lastValid |-> <<>>, lastScrollSignature |-> <<>>, timer |-> NoTimer, scrolled |-> <<>>]

CanvasIdle == canvas = NoCanvas

\* the useMemo of convertedElements on an element array; ok: convertToExcalidrawElements
\* returns a non-empty array, which keeps the id, type and position of each element.
\* fresh: the value is a new array, so that the effects that depend on it run again
convertedElements(c, array, ok) ==
    IF array = <<>>
    THEN [c |-> [c EXCEPT !.elements = array, !.lastValid = <<>>,
                          !.lastScrollSignature = <<>>, !.converted = <<>>],
          fresh |-> TRUE]
    ELSE IF ~c.convert \/ ~ok
    THEN [c |-> [c EXCEPT !.elements = array, !.converted = c.lastValid], fresh |-> FALSE]
    ELSE [c |-> [c EXCEPT !.elements = array, !.lastValid = array, !.converted = array],
          fresh |-> TRUE]

\* the auto-scroll effect run again: the cleanup of its last run clears the timer, then
\* the effect body
autoScroll(c) ==
    IF ~c.api \/ c.converted = <<>>
    THEN [c EXCEPT !.timer = NoTimer, !.lastScrollSignature = <<>>]
    ELSE IF createElementsSignature(c.converted) = c.lastScrollSignature
    THEN [c EXCEPT !.timer = NoTimer]
    ELSE [c EXCEPT !.lastScrollSignature = createElementsSignature(c.converted),
                   !.timer = [set |-> TRUE, elements |-> c.converted]]

rendered(memo) == IF memo.fresh THEN autoScroll(memo.c) ELSE memo.c

\* the parent renders the canvas with an element array
Deliver(array, ok) ==
    /\ canvas' = rendered(convertedElements(canvas, array, ok))
    /\ UNCHANGED monVars
    /\ UNCHANGED streamVars
    /\ UNCHANGED genVars
    /\ UNCHANGED pageVars
    /\ UNCHANGED overlapVars
    /\ UNCHANGED configVars
    /\ UNCHANGED lockVars
    /\ UNCHANGED flagVars

\* getConvertFunction resolves: setConvertFunction, and the memo is computed again
ConvertLoaded(ok) ==
    /\ ~canvas.convert
    /\ canvas' = rendered(convertedElements([canvas EXCEPT !.convert = TRUE],
                                             canvas.elements, ok))
    /\ UNCHANGED monVars
    /\ UNCHANGED streamVars
    /\ UNCHANGED genVars
    /\ UNCHANGED pageVars
    /\ UNCHANGED overlapVars
    /\ UNCHANGED configVars
    /\ UNCHANGED lockVars
    /\ UNCHANGED flagVars

\* Excalidraw hands over its API object: setExcalidrawAPI, and the effect runs again
ApiReady ==
    /\ ~canvas.api
    /\ canvas' = autoScroll([canvas EXCEPT !.api = TRUE])
    /\ UNCHANGED monVars
    /\ UNCHANGED streamVars
    /\ UNCHANGED genVars
    /\ UNCHANGED pageVars
    /\ UNCHANGED overlapVars
    /\ UNCHANGED configVars
    /\ UNCHANGED lockVars
    /\ UNCHANGED flagVars

\* the 100 ms have passed: scrollToContent on the array the effect had captured
TimerFires ==
    /\ canvas.timer.set
    /\ canvas' = [canvas EXCEPT !.timer = NoTimer,
                                 !.scrolled = createElementsSignature(canvas.timer.elements)]
    /\ UNCHANGED monVars
    /\ UNCHANGED streamVars
    /\ UNCHANGED genVars
    /\ UNCHANGED pageVars
    /\ UNCHANGED overlapVars
    /\ UNCHANGED configVars
    /\ UNCHANGED lockVars
    /\ UNCHANGED flagVars

\* elements a and b; a at x = 0, 0.25 and 0.5
CanvasElement(id, quarters) == [id |-> id, type |-> "rectangle", x |-> quarters, y |-> 0]

CanvasArrays ==
    { <<>>,
      <<CanvasElement("a", 0)>>,
      <<CanvasElement("a", 1)>>,
      <<CanvasElement("a", 2)>>,
      <<CanvasElement("a", 0), CanvasElement("b", 0)>>,
      <<CanvasElement("a", 1), CanvasElement("b", 0)>> }

StreamIdle ==
    /\ style = "none"
    /\ transport = <<>>
    /\ wire = <<>>
    /\ buffer = <<>>
    /\ partial = FALSE
    /\ emitted = <<>>
    /\ fullText = <<>>
    /\ queue = <<>>
    /\ delivered = NoChunk
    /\ streamState = [state |-> "readable", error |-> <<>>]
    /\ prodState = "idle"
    /\ consState = "idle"

GenIdle ==
    /\ pc = "idle"
    /\ usageCheck = recordedResult(FreshSession(0), 0, 0)
    /\ fetchCalls = 0
    /\ thrown = <<>>

\* no earlier call of handleSendMessage is reading
NoPrior == [state |-> "none", transport |-> <<>>, buffer |-> <<>>, accumulatedCode |-> <<>>]

OverlapIdle == prior = NoPrior

\* the ConfigManager as constructed, nothing persisted, the service ready
ConfigIdle ==
    /\ isBuiltinActive = FALSE
    /\ builtinStored = FALSE
    /\ builtinStatusCache = NoStatus
    /\ serviceStatus = "ready"
    /\ activeConfigId = null
    /\ activeStored = null
    /\ isLoaded = FALSE

\* the page as mounted: useState('') , useState([]), useState(null)
PageIdle ==
    /\ accumulatedCode = <<>>
    /\ generatedCode = <<>>
    /\ elements = <<>>
    /\ pushed = <<>>
    /\ apiError = <<>>
    /\ jsonError = "null"
    /\ pagePc = "idle"
    /\ out = NoOut

\* the module is loaded with nothing in localStorage
MonitorFresh(t) ==
    /\ now = t
    /\ elapsed = 0
    /\ sessionData = loadSessionData(<<>>, t)
    /\ storage = storedAfterLoad(<<>>, t)
    /\ ret = NoCall(sessionData)

\* ---------------------------------------------------------------- the monitor alone
Init ==
    /\ CanvasIdle
    /\ FlagIdle
    /\ LockIdle
    /\ \E t \in StartTimes : MonitorFresh(t)
    /\ StreamIdle
    /\ GenIdle
    /\ OverlapIdle
    /\ ConfigIdle
    /\ PageIdle

Next ==
    \/ \E t \in TokenDeltas : RecordUsage(t)
    \/ CheckLimits
    \/ GetUsageStats
    \/ IsInCooldown
    \/ GetErrorMessage
    \/ ResetUsage
    \/ Reload
    \/ Tick

Spec == Init /\ [][Next]_vars

\* ---------------------------------------------------------------- the monitor on a stored session
\* sessions found in localStorage when the module is loaded
StoredSessions ==
    {[requests |-> r, tokens |-> k, lastReset |-> 0, lastRequest |-> 0, violations |-> v] :
        r \in {0, 19, 50}, k \in {0, 5000},
        v \in {<<>>, <<[timestamp |-> 0, type |-> "HOURLY_TOKENS", current |-> 5000,
                       limit |-> 5000]>>}}

InitStored ==
    /\ CanvasIdle
    /\ FlagIdle
    /\ LockIdle
    /\ \E t \in {0, 5, 59} : \E stored \in StoredSessions :
          /\ now = t
          /\ elapsed = 0
          /\ sessionData = loadSessionData(stored, t)
          /\ storage = storedAfterLoad(stored, t)
          /\ ret = NoCall(sessionData)
    /\ StreamIdle
    /\ GenIdle
    /\ OverlapIdle
    /\ ConfigIdle
    /\ PageIdle

NextStored ==
    \/ \E t \in TokenDeltas : RecordUsage(t)
    \/ CheckLimits
    \/ Tick

SpecStored == InitStored /\ [][NextStored]_vars

\* ---------------------------------------------------------------- loading a stored session
\* when the module is loaded, counted from the stored session's lastReset: at once,
\* later in the hour, an hour, a day, a month, a month and an hour, a year later
LoadTimes == {0, 59, 60, 1440, 43200, 43260, 518400}

InitLoad ==
    /\ CanvasIdle
    /\ FlagIdle
    /\ LockIdle
    /\ \E t \in LoadTimes : \E stored \in StoredSessions :
          /\ now = t
          /\ elapsed = 0
          /\ sessionData = loadSessionData(stored, t)
          /\ storage = storedAfterLoad(stored, t)
          /\ ret = [op |-> "constructor", arg |-> null, at |-> t, before |-> stored,
                    result |-> null]
    /\ StreamIdle
    /\ GenIdle
    /\ OverlapIdle
    /\ ConfigIdle
    /\ PageIdle

NextLoad ==
    \/ Reload
    \/ \E t \in TokenDeltas : RecordUsage(t)
    \/ GetUsageStats
    \/ Tick

SpecLoad == InitLoad /\ [][NextLoad]_vars

\* ---------------------------------------------------------------- the builtin configuration
\* the page is opened in the hour in which 18 requests were recorded, with the
\* builtin flag persisted or not, whatever the service answers
InitStatus ==
    /\ CanvasIdle
    /\ FlagIdle
    /\ LockIdle
    /\ \E stored \in {[requests |-> 18, tokens |-> 0, lastReset |-> 0, lastRequest |-> 0,
                        violations |-> <<>>]} :
          /\ now = 0
          /\ elapsed = 0
          /\ sessionData = loadSessionData(stored, 0)
          /\ storage = storedAfterLoad(stored, 0)
          /\ ret = NoCall(sessionData)
    /\ StreamIdle
    /\ GenIdle
    /\ OverlapIdle
    /\ PageIdle
    /\ isBuiltinActive = FALSE
    /\ builtinStored \in BOOLEAN
    /\ builtinStatusCache = NoStatus
    /\ serviceStatus \in Statuses
    /\ activeConfigId = null
    /\ activeStored = null
    /\ isLoaded = FALSE

NextStatus ==
    \/ \E s \in Statuses : ServiceChanges(s)
    \/ SetBuiltinActive
    \/ \E id \in {configs[k] : k \in 1..Len(configs)} : SetActiveConfig(id)
    \/ LoadConfigs
    \/ BuiltinGenerate
    \/ FetchFails
    \/ \E status \in {<<"5", "0", "3">>} : FetchHttpError(status)
    \/ Tick

SpecStatus == InitStatus /\ [][NextStatus]_vars

\* ---------------------------------------------------------------- the adapters on a response body
InitStream ==
    /\ CanvasIdle
    /\ FlagIdle
    /\ LockIdle
    /\ MonitorFresh(0)
    /\ GenIdle
    /\ OverlapIdle
    /\ ConfigIdle
    /\ PageIdle
    /\ style \in Styles
    /\ wire \in Wires(style)
    /\ transport = wire
    /\ buffer = <<>>
    /\ partial = FALSE
    /\ emitted = <<>>
    /\ fullText = <<>>
    /\ queue = <<>>
    /\ delivered = NoChunk
    /\ streamState = [state |-> "readable", error |-> <<>>]
    /\ prodState = "reading"
    /\ consState = IF style = "builtin-glm" THEN "start" ELSE "idle"

NextStream ==
    \/ OpenAIRead
    \/ OpenAIDone
    \/ AnthropicRead
    \/ AnthropicDone
    \/ GLMProducerRead
    \/ GLMProducerDone
    \/ GLMConsumerStart
    \/ GLMConsumerChunk
    \/ GLMConsumerEnd
    \/ GLMConsumerFail

SpecStream == InitStream /\ [][NextStream]_vars

\* the adapters with a consumer callback that may throw
NextLocks ==
    \/ NextStream
    \/ GLMOnChunkThrows

SpecLocks == InitStream /\ [][NextLocks]_vars

\* ---------------------------------------------------------------- builtin generations
\* the module is loaded in the hour in which 18 requests were recorded
InitGen ==
    /\ CanvasIdle
    /\ FlagIdle
    /\ LockIdle
    /\ \E stored \in {[requests |-> 18, tokens |-> 0, lastReset |-> 0, lastRequest |-> 0,
                        violations |-> <<>>]} :
          /\ now = 0
          /\ elapsed = 0
          /\ sessionData = loadSessionData(stored, 0)
          /\ storage = storedAfterLoad(stored, 0)
          /\ ret = NoCall(sessionData)
    /\ StreamIdle
    /\ GenIdle
    /\ OverlapIdle
    /\ ConfigIdle
    /\ PageIdle

NextGen ==
    \/ \E configured \in BOOLEAN : StartGeneration(configured)
    \/ FetchFails
    \/ \E status \in {<<"4", "2", "9">>, <<"5", "0", "0">>} : FetchHttpError(status)
    \/ \E body \in GenWires : FetchOk(body)
    \/ GLMProducerRead
    \/ GLMProducerDone
    \/ GLMConsumerStart
    \/ GLMConsumerChunk
    \/ GLMConsumerEnd
    \/ GLMConsumerFail
    \/ GenerationEnds
    \/ Tick

SpecGen == InitGen /\ [][NextGen]_vars

\* ---------------------------------------------------------------- generated code
Str(word) == <<"QT", word, "QT">>

\* {"id":"1","type":"text","x":0,"y":0}
ElementOne ==
    <<"{">> \o Str("id") \o <<":">> \o Str("1") \o <<",">> \o Str("type") \o <<":">>
        \o Str("text") \o <<",">> \o Str("x") \o <<":", "0", ",">> \o Str("y") \o <<":", "0", "}">>

\* {"id":"a","type":"rectangle","x":1,"y":2}
ElementA ==
    <<"{">> \o Str("id") \o <<":">> \o Str("a") \o <<",">> \o Str("type") \o <<":">>
        \o Str("rectangle") \o <<",">> \o Str("x") \o <<":", "1", ",">> \o Str("y")
        \o <<":", "2", "}">>

\* {"id":"b"}
ElementB == <<"{">> \o Str("id") \o <<":">> \o Str("b") \o <<"}">>

ChunkOne == <<"{">> \o Str("elements") \o <<":", "[">>

ChunkThree == <<"]", "}">>

\* {"data":[{"elements":[{"id":"a","type":"rectangle","x":1,"y":2}]}]}
NestedDataArrayDoc ==
    <<"{">> \o Str("data") \o <<":", "[", "{">> \o Str("elements") \o <<":", "[">> \o ElementA
        \o <<"]", "}", "]", "}">>

\* documents of the shapes the element extractor knows, of several shapes at once, of none
ShapeDocs ==
    { <<"[">> \o ElementB \o <<"]">>,
      ChunkOne \o ElementOne \o ChunkThree,
      NestedDataArrayDoc,
      <<"{">> \o Str("data") \o <<":", "{">> \o Str("elements") \o <<":", "[">> \o ElementB
          \o <<"]", "}", "}">>,
      <<"{">> \o Str("data") \o <<":", "[", "{">> \o Str("elements") \o <<":", "[">> \o ElementB
          \o <<"]", "}", "]", ",">> \o Str("elements") \o <<":", "[", "]", "}">>,
      <<"{">> \o Str("data") \o <<":", "{">> \o Str("elements") \o <<":", "[">> \o ElementB
          \o <<"]", "}", ",">> \o Str("elements") \o <<":", "[", "1", "]", "}">>,
      <<"{">> \o Str("elements") \o <<":">> \o Str("a") \o <<",">> \o Str("data") \o <<":", "[", "{">>
          \o Str("elements") \o <<":", "[">> \o ElementB \o <<"]", "}", "]", "}">>,
      <<"{">> \o Str("data") \o <<":", "[", "]", "}">>,
      <<"{">> \o Str("data") \o <<":", "[">> \o Str("a") \o <<"]", "}">>,
      <<"{">> \o Str("a") \o <<":", "1", "}">>,
      Str("a") }

\* code with quotes that are not escaped inside its strings
QuoteDocs ==
    { <<"{">> \o Str("a") \o <<":", "QT", "say", "SP", "QT", "hi", "QT", "QT", "}">>,
      <<"{">> \o Str("a") \o <<"SP", ":", "QT", "b", "QT", "c", "QT", "SP", "LF", "}">>,
      <<"[", "QT", "b", "QT", "SP", "c", "QT", "SP", ",", "QT", "d", "BSL", "QT", "QT", "e", "QT",
        "]">>,
      <<"[", "QT", "b", "QT", "SP", "QT", "LF", "]">>,
      <<"QT", "b", "QT", "c">>,
      <<"say", "SP", "[">> \o Str("b") \o <<"QT">> }

\* code in code fences, code cut short, prose around an array
OtherDocs ==
    { <<"FENCE", "json", "LF", "[">> \o ElementB \o <<"]", "LF", "FENCE">>,
      <<"FENCE", "SP", "[">> \o ElementB \o <<"]", "FENCE", "SP">>,
      ChunkOne \o ElementOne,
      <<"say", "SP", "[">> \o ElementB \o <<"]", "SP", "say">>,
      <<"[">> \o ElementB \o <<",">>,
      <<"[", "}", "[", "1", "]", "]">>,
      <<"say">> }

\* a JSON value with brackets nested in it and inside its string literals
JsonValues ==
    { <<"[", "{">> \o Str("a") \o <<":", "[", "1", "]", "}", "]">>,
      <<"{">> \o Str("a") \o <<":", "QT", "]", "{", "QT", "}">>,
      <<"{">> \o Str("a") \o <<":", "QT", "x", "BSL", "QT", "}", "QT", "}">>,
      <<"[", "]">> }

MaxProse == 1

ProseAtoms == {"say", "QT", "BSL", "[", "}"}

Prose == UNION {[1..k -> ProseAtoms] : k \in 0..MaxProse}

Wrapped == {pre \o value \o post : pre \in Prose, value \in JsonValues, post \in Prose}

CodeTexts == Wrapped \cup ShapeDocs \cup QuoteDocs \cup OtherDocs

EditorTexts == ShapeDocs \cup OtherDocs

\* ---------------------------------------------------------------- the repair functions on a text
InitCode ==
    /\ CanvasIdle
    /\ FlagIdle
    /\ LockIdle
    /\ MonitorFresh(0)
    /\ StreamIdle
    /\ GenIdle
    /\ OverlapIdle
    /\ ConfigIdle
    /\ accumulatedCode \in CodeTexts \cup {<<>>}
    /\ generatedCode = <<>>
    /\ elements = <<>>
    /\ pushed = <<>>
    /\ apiError = <<>>
    /\ jsonError = "null"
    /\ pagePc = "idle"
    /\ out = NoOut

NextCode ==
    \/ PostProcess
    \/ \E code \in EditorTexts : EditCode(code)
    \/ HandleApplyCode

SpecCode == InitCode /\ [][NextCode]_vars

\* ---------------------------------------------------------------- generations on the page
frame(content) == <<"DATA", "C">> \o content \o <<"NL">>

ErrorFrame == <<"DATA", "E", "m", "NL">>

RECURSIVE frames(_)
frames(text) == IF text = <<>> THEN <<>> ELSE frame(<<Head(text)>>) \o frames(Tail(text))

\* [{"id":"a b"}]
SpacedDoc == <<"[", "{">> \o Str("id") \o <<":", "QT", "a", "SP", "b", "QT", "}", "]">>

\* the response bodies of /api/generate
PageBodies ==
    { frame(ChunkOne) \o frame(ElementOne) \o frame(ChunkThree),
      frames(SpacedDoc),
      frame(<<"[">>) \o ErrorFrame \o frame(<<"]">>),
      frame(<<"[">> \o ElementB \o <<"]">>) \o ErrorFrame,
      frame(<<"FENCE", "json", "LF">>) \o <<"NL">> \o frame(<<"[">> \o ElementB \o <<"]">>)
          \o <<"DATA", "bad", "NL">> \o frame(<<"LF", "FENCE">>) \o <<"DATA", "DONE", "NL">>,
      frame(<<"[">> \o ElementB) \o <<"SP", "DATA", "C", "]", "NL", "DATA", "C", "NL">>
          \o frame(<<",">> \o ElementB) \o <<"DATA", "C", "]">> }

InitPage ==
    /\ CanvasIdle
    /\ FlagIdle
    /\ LockIdle
    /\ MonitorFresh(0)
    /\ StreamIdle
    /\ GenIdle
    /\ OverlapIdle
    /\ ConfigIdle
    /\ PageIdle

NextPage ==
    \/ SendMessage
    \/ \E message \in {"network", "status"} : ResponseFails(message)
    \/ \E body \in PageBodies : ResponseOk(body)
    \/ PageRead
    \/ PageDone

SpecPage == InitPage /\ [][NextPage]_vars

\* ---------------------------------------------------------------- overlapping generations
\* [{"id":"a"}]
DocA == <<"[", "{">> \o Str("id") \o <<":">> \o Str("a") \o <<"}", "]">>

\* the response bodies of two requests: a document in two frames, another in one
OverlapBodies ==
    { frame(<<"[">> \o ElementB) \o frame(<<"]">>),
      frame(DocA) }

NextOverlap ==
    \/ SendMessage
    \/ \E message \in {"network"} : ResponseFails(message)
    \/ \E body \in OverlapBodies : ResponseOk(body)
    \/ PageRead
    \/ PageDone
    \/ SendMessageAgain
    \/ PriorRead
    \/ PriorDone

SpecOverlap == InitPage /\ [][NextOverlap]_vars

\* ---------------------------------------------------------------- the canvas on its own
InitCanvas ==
    /\ MonitorFresh(0)
    /\ StreamIdle
    /\ GenIdle
    /\ OverlapIdle
    /\ ConfigIdle
    /\ PageIdle
    /\ LockIdle
    /\ FlagIdle
    /\ CanvasIdle

NextCanvas ==
    \/ \E array \in CanvasArrays : \E ok \in BOOLEAN : Deliver(array, ok)
    \/ \E ok \in BOOLEAN : ConvertLoaded(ok)
    \/ ApiReady
    \/ TimerFires

SpecCanvas == InitCanvas /\ [][NextCanvas]_vars

\* ================================================================ claims
\* the calls that evaluate the limits: the session they evaluate and their decision
isLimitCheck == ret.op \in {"checkLimits", "recordUsage"}

checkedSession ==
    IF ret.op = "recordUsage"
    THEN [ret.before EXCEPT !.requests = @ + 1, !.tokens = @ + ret.arg, !.lastRequest = ret.at]
    ELSE ret.before

decisionOf == IF ret.op = "recordUsage" THEN ret.result.decision ELSE ret.result

loggedEnd(s) == s.violations[Len(s.violations)].timestamp + getLimits.cooldownMinutes

inCooldown(s, t) == s.violations # <<>> /\ t < loggedEnd(s)

sameCalendarDay(a, b) == (a \div 1440) = (b \div 1440)

\* C1: from a fresh session, the recordUsage call that follows requestsPerHour recorded
\* calls (the 21st) is denied with HOURLY_REQUESTS and current = limit = requestsPerHour.
C1_NextCallAfterLimitDenied ==
    (/\ ret.op = "recordUsage"
     /\ ret.before.requests = getLimits.requestsPerHour
     /\ ret.before.tokens + ret.arg < getLimits.tokensPerHour)
    => /\ ret.result.decision.allowed = FALSE
       /\ ret.result.decision.violation = "HOURLY_REQUESTS"
       /\ ret.result.decision.current = getLimits.requestsPerHour
       /\ ret.result.decision.limit = getLimits.requestsPerHour

\* C2: checkLimits decides by a fixed precedence, first match wins: active cooldown, then
\* the hourly request cap, then the hourly token cap, then the daily request cap on the
\* day of the last reset, else allowed.
C2_CheckLimitsPrecedence ==
    ret.op = "checkLimits" =>
        LET s == ret.before
            t == ret.at
            r == ret.result
        IN  IF inCooldown(s, t)
            THEN r.allowed = FALSE /\ r.violation = "COOLDOWN" /\ r.cooldownEnd = loggedEnd(s)
            ELSE IF s.requests >= getLimits.requestsPerHour
            THEN r.allowed = FALSE /\ r.violation = "HOURLY_REQUESTS"
            ELSE IF s.tokens >= getLimits.tokensPerHour
            THEN r.allowed = FALSE /\ r.violation = "HOURLY_TOKENS"
            ELSE IF sameCalendarDay(t, s.lastReset) /\ s.requests >= getLimits.requestsPerDay
            THEN r.allowed = FALSE /\ r.violation = "DAILY_REQUESTS"
            ELSE r.allowed = TRUE /\ r.violation = "null"

C2_Witness ==
    /\ ret.op = "checkLimits"
    /\ ~inCooldown(ret.before, ret.at)
    /\ ret.before.requests >= getLimits.requestsPerHour
    /\ ret.before.tokens >= getLimits.tokensPerHour
    /\ ret.result.violation = "HOURLY_REQUESTS"

\* C3: while a cooldown is running its end does not move: no step of the monitor that
\* keeps the violation log changes the end of the running cooldown.
C3_CooldownEndFixed ==
    [][(inCooldown(sessionData, now) /\ sessionData'.violations # <<>>)
        => loggedEnd(sessionData') = loggedEnd(sessionData)]_vars

\* C4: a limit check at or after cooldownMinutes past the last logged violation, with the
\* request and token counts under their caps, is allowed; the boundary instant included.
C4_AllowedAfterCooldown ==
    (/\ isLimitCheck
     /\ checkedSession.violations # <<>>
     /\ ret.at >= loggedEnd(checkedSession)
     /\ checkedSession.requests < getLimits.requestsPerHour
     /\ checkedSession.tokens < getLimits.tokensPerHour)
    => decisionOf.allowed = TRUE

C4_Witness ==
    /\ ret.op = "checkLimits"
    /\ ret.before.violations # <<>>
    /\ ret.at = loggedEnd(ret.before)
    /\ ret.before.requests < getLimits.requestsPerHour
    /\ ret.before.tokens < getLimits.tokensPerHour
    /\ ret.result.allowed = TRUE

C6_ResetBeforeRead ==
    ret.op \in {"checkLimits", "recordUsage", "getUsageStats"} =>
        /\ getHours(sessionData.lastReset) = getHours(ret.at)
        /\ getDate(sessionData.lastReset) = getDate(ret.at)
        /\ (ret.op = "recordUsage" /\ getHours(ret.before.lastReset) # getHours(ret.at))
              => ret.result.usage.requests = 1

\* C7: a generation whose dispatch-time recordUsage is denied makes no provider call:
\* callBuiltinGLM and its fetch are not invoked and no stream is opened.
C7_DeniedNoDispatch ==
    ~usageCheck.decision.allowed =>
        /\ fetchCalls = 0
        /\ pc = "failed"
        /\ prodState = "idle"
        /\ wire = <<>>

C7_Witness ==
    /\ pc = "failed"
    /\ ~usageCheck.decision.allowed
    /\ usageCheck.decision.violation = "HOURLY_REQUESTS"
    /\ fetchCalls = 0

\* C8: the error that reaches the caller of a denied generation names the violation
\* kind of the denial.
C8_ErrorNamesViolation ==
    (pc = "failed" /\ ~usageCheck.decision.allowed)
        => \E i \in 1..Len(thrown) : thrown[i] = usageCheck.decision.violation

\* the part of the response body the adapter has read, and its complete lines
consumed == SubSeq(wire, 1, Len(wire) - Len(transport))

consumedLines == splitLines(consumed)

isTerminator(line) == trim(line) = <<"DATA", "DONE">>

\* the fragment a builtin data line carries
lineChunk(line) ==
    IF startsWith(line, "DATA") /\ parses(Tail(line)) /\ processGLMChunk(parsed(Tail(line))) # NoChunk
    THEN <<processGLMChunk(parsed(Tail(line)))>>
    ELSE <<>>

\* the fragments of the lines of a builtin body, up to its terminator or error line
RECURSIVE builtinFragments(_)
builtinFragments(lines) ==
    IF lines = <<>> THEN <<>>
    ELSE IF Head(lines) = <<"DATA", "DONE">> \/ startsWith(Head(lines), "ERR") THEN <<>>
    ELSE lineChunk(Head(lines)) \o builtinFragments(Tail(lines))

\* C9: in every style the fragments emitted so far are those of the newline-terminated
\* lines of the bytes read so far, in order, however the reads split them.
C9_SplitIndependent ==
    /\ style = "openai" => fullText = openAILines(consumedLines)
    /\ style = "anthropic" => fullText = anthropicLines(consumedLines)
    /\ (style = "builtin-glm" /\ prodState # "idle") => emitted = builtinFragments(consumedLines)
    /\ prodState = "reading" => buffer = lastPiece(consumed)

C9_Witness ==
    /\ partial
    /\ transport = <<>>
    /\ buffer = <<>>
    /\ prodState = "done"
    /\ \/ Len(fullText) = 3
       \/ style = "builtin-glm" /\ Len(emitted) = 3

\* the lines before the first terminator line
RECURSIVE beforeTerminator(_)
beforeTerminator(lines) ==
    IF lines = <<>> \/ isTerminator(Head(lines)) THEN <<>>
    ELSE <<Head(lines)>> \o beforeTerminator(Tail(lines))

notTerminator(line) == ~isTerminator(line)

contents(chunks) ==
    LET isContent(c) == c.type = "content"
        cs == SelectSeq(chunks, isContent)
    IN  [i \in 1..Len(cs) |-> cs[i].content]

isPrefix(a, b) == Len(a) <= Len(b) /\ a = SubSeq(b, 1, Len(a))

\* C10 as stated: in every style, no line after the terminator line produces a fragment.
C10_TerminatorEndsEveryStyle ==
    /\ style = "openai" => fullText = openAILines(beforeTerminator(consumedLines))
    /\ style = "anthropic" => fullText = anthropicLines(beforeTerminator(consumedLines))
    /\ (style = "builtin-glm" /\ prodState # "idle")
          => emitted = builtinFragments(beforeTerminator(consumedLines))

\* C10 amended: in the builtin style no line after the terminator line is enqueued or
\* reaches onChunk; in the openai and anthropic styles the terminator line yields no
\* fragment itself and the lines after it are still processed.
C10_TerminatorEndsBuiltin ==
    /\ (style = "builtin-glm" /\ prodState # "idle")
          => /\ emitted = builtinFragments(beforeTerminator(consumedLines))
             /\ isPrefix(fullText, contents(emitted))
             /\ (\E i \in 1..Len(consumedLines) : isTerminator(consumedLines[i]))
                   => prodState = "done"
    /\ style = "openai" => fullText = openAILines(SelectSeq(consumedLines, notTerminator))
    /\ style = "anthropic" => fullText = anthropicLines(SelectSeq(consumedLines, notTerminator))

C10_Witness ==
    /\ style = "builtin-glm"
    /\ wire = <<"DATA", "cA", "NL", "DATA", "DONE", "NL", "DATA", "cB", "NL">>
    /\ consState = "returned"
    /\ fullText = <<"a">>

\* a data line whose payload JSON.parse rejects
isMalformed(line) ==
    /\ startsWith(trim(line), "DATA")
    /\ ~isTerminator(line)
    /\ ~parses(Tail(trim(line)))

wellFormed(line) == ~isMalformed(line)

isErrorLine(line) == startsWith(line, "ERR")

hasErrorLine(lines) == \E i \in 1..Len(lines) : isErrorLine(lines[i])

\* C11: a data line whose payload is not decodable JSON is skipped: the fragments are
\* those of the well-formed lines alone, in their order, and the line raises no error:
\* without an `error: ` line the stream is never errored and nothing is thrown.
C11_MalformedSkipped ==
    /\ style = "openai" => fullText = openAILines(SelectSeq(consumedLines, wellFormed))
    /\ style = "anthropic" => fullText = anthropicLines(SelectSeq(consumedLines, wellFormed))
    /\ (style = "builtin-glm" /\ prodState # "idle")
          => /\ emitted = builtinFragments(SelectSeq(consumedLines, wellFormed))
             /\ ~hasErrorLine(consumedLines)
                   => /\ streamState.state # "errored"
                      /\ consState \notin {"gotError", "threw"}
                      /\ thrown = <<>>

C11_Witness ==
    /\ style = "builtin-glm"
    /\ wire = <<"DATA", "cA", "NL", "DATA", "bad", "NL", "DATA", "cB", "NL">>
    /\ consState = "returned"
    /\ fullText = <<"a", "b">>
    /\ thrown = <<>>

\* the first `error: ` line among lines that no terminator line precedes (0 when none)
firstErrorLine(lines) ==
    IF \E i \in 1..Len(lines) :
          isErrorLine(lines[i]) /\ \A j \in 1..(i - 1) : lines[j] # <<"DATA", "DONE">>
    THEN CHOOSE i \in 1..Len(lines) :
            /\ isErrorLine(lines[i])
            /\ \A j \in 1..(i - 1) : ~isErrorLine(lines[j]) /\ lines[j] # <<"DATA", "DONE">>
    ELSE 0

\* the message an `error: ` line stands for: its JSON message field, else its raw text
errorLineText(line) ==
    IF Tail(line) = <<"emsg">> THEN <<"GLM Error: ", "m">> ELSE <<"GLM Error: ">> \o Tail(line)

\* C12: in the builtin style a complete `error: ` line errors the stream with the message of
\* that line, enqueues nothing itself, ends the read loop so that no later line is
\* processed, and the error is what processGLMStream throws.
C12_ErrorLineTerminates ==
    (style = "builtin-glm" /\ firstErrorLine(consumedLines) > 0) =>
        LET i == firstErrorLine(consumedLines)
        IN  /\ streamState.state = "errored"
            /\ streamState.error = errorLineText(consumedLines[i])
            /\ prodState = "done"
            /\ emitted = builtinFragments(SubSeq(consumedLines, 1, i - 1))
            /\ isPrefix(fullText, contents(emitted))
            /\ consState \notin {"gotDone", "returned"}
            /\ consState = "threw" => thrown = errorLineText(consumedLines[i])

C12_Witness ==
    /\ style = "builtin-glm"
    /\ wire = <<"DATA", "cA", "NL", "ERR", "emsg", "NL", "DATA", "cB", "NL">>
    /\ consState = "threw"
    /\ thrown = <<"GLM Error: ", "m">>
    /\ emitted = <<[NoChunk EXCEPT !.type = "content", !.content = "a"]>>

\* the frames of a builtin body that carry usage.total_tokens, up to its terminator
RECURSIVE usageFrames(_)
usageFrames(lines) ==
    IF lines = <<>> \/ Head(lines) = <<"DATA", "DONE">> \/ isErrorLine(Head(lines)) THEN 0
    ELSE (IF startsWith(Head(lines), "DATA") /\ parses(Tail(Head(lines)))
               /\ parsed(Tail(Head(lines))).hasUsage
          THEN 1 ELSE 0) + usageFrames(Tail(lines))

\* C13: every frame that carries usage.total_tokens, whatever else it carries, makes
\* processGLMStream call recordUsage once: when the stream has been read to its end the
\* calls recorded since the dispatch are as many as the usage-carrying frames.
C13_UsageAlwaysRecorded ==
    (pc \in {"streaming", "completed"} /\ consState = "returned")
        => sessionData.requests - usageCheck.usage.requests = usageFrames(splitLines(wire))

\* the spans of a text that are a complete JSON object or array
valueSpans(text) ==
    {span \in (1..Len(text)) \X (1..Len(text)) :
        /\ span[1] < span[2]
        /\ text[span[1]] \in {"{", "["}
        /\ text[span[2]] \in {"}", "]"}
        /\ JSONparse(SubSeq(text, span[1], span[2])).ok}

\* those of them that lie in no other: the top-level values of the text
topLevelSpans(text) ==
    {span \in valueSpans(text) :
        \A other \in valueSpans(text) :
            (other[1] <= span[1] /\ span[2] <= other[2]) => other = span}

\* C14: on a text that holds exactly one complete top-level JSON object or array, with
\* whatever prose around it, balanced extraction returns the span of that value, first
\* opening bracket through matching closer.
C14_BalancedExtraction ==
    (out.op = "postProcessExcalidrawCode"
        /\ Cardinality(topLevelSpans(out.result.processed)) = 1)
        => \E span \in topLevelSpans(out.result.processed) :
              out.result.balancedSnippet =
                  [found |-> TRUE, text |-> SubSeq(out.result.processed, span[1], span[2])]

\* the double quote at index i is followed, after any white space, by one of : , } ] or
\* by the end of the text
endsString(text, i) ==
    \/ trimStart(SubSeq(text, i + 1, Len(text))) = <<>>
    \/ Head(trimStart(SubSeq(text, i + 1, Len(text)))) \in {":", ",", "}", "]"}

\* the text from index i on, repaired by the rule: a double quote met inside a string ends
\* the string when endsString holds and is escaped otherwise; a character after a
\* backslash is kept as it is
RECURSIVE repairedFrom(_, _, _)
repairedFrom(text, i, inside) ==
    IF i > Len(text) THEN <<>>
    ELSE IF text[i] = "BSL"
    THEN (IF i < Len(text) THEN <<"BSL", text[i + 1]>> ELSE <<"BSL">>)
             \o repairedFrom(text, i + 2, inside)
    ELSE IF text[i] = "QT" /\ inside /\ ~endsString(text, i)
    THEN <<"BSL", "QT">> \o repairedFrom(text, i + 1, TRUE)
    ELSE IF text[i] = "QT"
    THEN <<"QT">> \o repairedFrom(text, i + 1, ~inside)
    ELSE <<text[i]>> \o repairedFrom(text, i + 1, inside)

\* {"a":"say "hi""}
QuoteExample == <<"{">> \o Str("a") \o <<":", "QT", "say", "SP", "QT", "hi", "QT", "QT", "}">>

\* C15: quote repair treats a double quote met inside a string as the end of the string
\* only if the next character that is not white space is one of : , } ] or the text ends,
\* and escapes it otherwise; the repair of {"a":"say "hi""} parses, and its field a is
\* the text say "hi".
C15_QuoteRepair ==
    out.op = "postProcessExcalidrawCode" =>
        /\ out.result.fixed = repairedFrom(out.result.jsonContent, 1, FALSE)
        /\ out.arg = QuoteExample =>
              /\ ~out.result.directOk
              /\ out.result.returned = out.result.fixed
              /\ JSONparse(out.result.returned).ok
              /\ get(JSONparse(out.result.returned).val, <<"a">>)
                    = JStr(<<"say", "SP", "QT", "hi", "QT">>)

C15_Witness ==
    /\ out.op = "postProcessExcalidrawCode"
    /\ out.arg = QuoteExample
    /\ generatedCode =
          <<"{">> \o Str("a")
              \o <<":", "QT", "say", "SP", "BSL", "QT", "hi", "BSL", "QT", "QT", "}">>

ThreeChunks == frame(ChunkOne) \o frame(ElementOne) \o frame(ChunkThree)

\* C16: the chunks {"elements":[ then {"id":"1","type":"text","x":0,"y":0} then ]} arrive
\* in sequence. On the buffer after chunk 2 the structure analysis reports the pending
\* closers ]} and no direct parse succeeds; on the buffer after chunk 3 the direct parse
\* succeeds and the element extractor returns exactly one element, whose id is "1".
C16_ThreeChunks ==
    (wire = ThreeChunks /\ pagePc \in {"streaming", "completed"}) =>
        /\ accumulatedCode = ChunkOne \o ElementOne =>
              /\ analyzeJsonStructure(accumulatedCode).pendingClosers = <<"]", "}">>
              /\ out.op = "postProcessExcalidrawCode"
              /\ ~out.result.directOk
              /\ ~JSONparse(out.result.fixed).ok
              /\ ~JSONparse(accumulatedCode).ok
        /\ (accumulatedCode = ChunkOne \o ElementOne \o ChunkThree /\ pagePc = "streaming") =>
              /\ out.result.directOk
              /\ generatedCode = accumulatedCode
              /\ inspectParsedElements(JSONparse(generatedCode).val).found
              /\ Len(inspectParsedElements(JSONparse(generatedCode).val).elements) = 1
        /\ pagePc = "completed" =>
              /\ analyzeJsonStructure(accumulatedCode).pendingClosers = <<>>
              /\ tryParse(accumulatedCode).directOk
              /\ tryParse(accumulatedCode).parsedInfo.source = "parsed.elements"
              /\ pushed # <<>>
              /\ pushed[1] = tryParse(accumulatedCode).parsedInfo.elements
              /\ Len(pushed[1]) = 1
              /\ get(pushed[1][1], <<"id">>) = JStr(<<"1">>)

C16_Witness ==
    /\ wire = ThreeChunks
    /\ pagePc = "completed"
    /\ Len(pushed[1]) = 1
    /\ get(pushed[1][1], <<"id">>) = JStr(<<"1">>)
    /\ get(pushed[1][1], <<"type">>) = JStr(<<"text">>)

\* response bodies that feed a valid document piece by piece, with the document and its
\* element array
FedDocuments ==
    { [body |-> ThreeChunks,
       document |-> ChunkOne \o ElementOne \o ChunkThree,
       array |-> <<JObj(<< <<"id">>, <<"type">>, <<"x">>, <<"y">> >>,
                        <<JStr(<<"1">>), JStr(<<"text">>), JNum(<<"0">>), JNum(<<"0">>)>>)>>],
      [body |-> frames(SpacedDoc),
       document |-> SpacedDoc,
       array |-> <<JObj(<< <<"id">> >>, <<JStr(<<"a", "SP", "b">>)>>)>>] }

\* C17: when the pieces of a valid document arrive one after the other, the buffer is at
\* every moment a prefix of the document, whatever the repair returned for the earlier
\* prefixes, and the pass on the full text extracts the complete element array of the
\* document.
C17_MonotonicGrowth ==
    \A fed \in FedDocuments :
        (wire = fed.body /\ pagePc \in {"streaming", "completed"}) =>
            /\ isPrefix(accumulatedCode, fed.document)
            /\ pagePc = "completed" =>
                  /\ accumulatedCode = fed.document
                  /\ pushed # <<>>
                  /\ pushed[1] = fed.array

\* the document [{"id":"a b"}] fed character by character: the repair of the prefix that
\* ends with the blank returned a text without it
C17_Witness ==
    /\ wire = frames(SpacedDoc)
    /\ pagePc = "completed"
    /\ pushed[1] = <<JObj(<< <<"id">> >>, <<JStr(<<"a", "SP", "b">>)>>)>>

\* the four shapes in their order: whether the value has the shape, the array the shape
\* holds and the tag of the shape
shapes(value) ==
    << [matches |-> value.t = "array",
        array |-> value.items,
        tag |-> "array"],
       [matches |-> value.t = "object" /\ get(value, <<"elements">>).t = "array",
        array |-> get(value, <<"elements">>).items,
        tag |-> "parsed.elements"],
       [matches |-> /\ value.t = "object"
                    /\ get(value, <<"data">>).t = "array"
                    /\ get(value, <<"data">>).items # <<>>
                    /\ get(get(value, <<"data">>).items[1], <<"elements">>).t = "array",
        array |-> IF get(value, <<"data">>).items # <<>>
                  THEN get(get(value, <<"data">>).items[1], <<"elements">>).items ELSE <<>>,
        tag |-> "parsed.data[0].elements"],
       [matches |-> /\ value.t = "object"
                    /\ get(value, <<"data">>).t = "object"
                    /\ get(get(value, <<"data">>), <<"elements">>).t = "array",
        array |-> get(get(value, <<"data">>), <<"elements">>).items,
        tag |-> "parsed.data.elements"] >>

\* C18: the element extractor returns the first of the four shapes the parsed value has,
\* in the order array, elements field, first entry of the data array, data object, with
\* the array and the tag of that shape, and nothing when it has none; the document
\* {"data":[{"elements":[{"id":"a","type":"rectangle","x":1,"y":2}]}]} yields a
\* one-element array tagged as the nested-data-array shape.
C18_ShapePriority ==
    (out.op = "tryParseAndApply" /\ out.result.directOk) =>
        /\ \A k \in 1..4 :
              (shapes(out.result.parsed)[k].matches
                  /\ \A j \in 1..(k - 1) : ~shapes(out.result.parsed)[j].matches)
                  => out.result.parsedInfo =
                        [found |-> TRUE,
                         elements |-> shapes(out.result.parsed)[k].array,
                         source |-> shapes(out.result.parsed)[k].tag]
        /\ (\A k \in 1..4 : ~shapes(out.result.parsed)[k].matches)
              => ~out.result.parsedInfo.found
        /\ out.arg = NestedDataArrayDoc =>
              /\ out.result.parsedInfo.source = "parsed.data[0].elements"
              /\ Len(out.result.parsedInfo.elements) = 1
              /\ get(out.result.parsedInfo.elements[1], <<"id">>) = JStr(<<"a">>)
              /\ elements = out.result.parsedInfo.elements

\* a value of two shapes at once, resolved by the order
C18_Witness ==
    /\ out.op = "tryParseAndApply"
    /\ out.result.directOk
    /\ shapes(out.result.parsed)[2].matches
    /\ shapes(out.result.parsed)[3].matches
    /\ out.result.parsedInfo.source = "parsed.elements"
    /\ elements = <<>>
    /\ pushed = << <<>> >>

\* a line of the response that carries a content fragment, one that carries an error
isContentFrame(line) ==
    /\ Len(line) >= 3
    /\ line[1] = "DATA"
    /\ line[2] = "C"

isErrorFrame(line) == Len(line) = 3 /\ line[1] = "DATA" /\ line[2] = "E"

\* the fragments of the content frames among the lines, joined in their order
RECURSIVE fragmentsOf(_)
fragmentsOf(lines) ==
    IF lines = <<>> THEN <<>>
    ELSE (IF isContentFrame(Head(lines)) THEN SubSeq(Head(lines), 3, Len(Head(lines)))
          ELSE <<>>) \o fragmentsOf(Tail(lines))

\* the repaired buffer parses to a value that holds an element array
yieldsElements(code) == JSONparse(code).ok /\ inspectParsedElements(JSONparse(code).val).found

firstErrorFrame(lines) ==
    IF \E i \in 1..Len(lines) : isErrorFrame(lines[i])
    THEN CHOOSE i \in 1..Len(lines) :
            isErrorFrame(lines[i]) /\ \A j \in 1..(i - 1) : ~isErrorFrame(lines[j])
    ELSE 0

\* C20: once the stream has delivered an error frame the generation is failed: no fragment
\* of a later line is appended to the buffer, and the final pass, the optimization and the
\* final render do not run.
C20_ErrorFrameFails ==
    (pagePc \in {"streaming", "completed"} /\ firstErrorFrame(consumedLines) > 0) =>
        /\ accumulatedCode
              = fragmentsOf(SubSeq(consumedLines, 1, firstErrorFrame(consumedLines) - 1))
        /\ pagePc # "completed"
        /\ pushed = <<>>

\* the step ends a generation that failed, or belongs to one that has read an error frame
failingStep ==
    \/ pagePc' = "failed"
    \/ pagePc = "streaming" /\ firstErrorFrame(consumedLines) > 0
    \/ pagePc = "streaming" /\ pagePc' = "completed" /\ ~out'.result.found

\* C21: the element array on the canvas changes only in a step in which an extraction
\* succeeded with an array, to that array; a generation that fails (denied or failed
\* request, error frame, repair failure) leaves the array as it was.
C21_RenderedNeverRolledBack ==
    [][/\ elements' # elements =>
             /\ out'.op = "tryParseAndApply"
             /\ pushed' # <<>>
             /\ elements' = pushed'[Len(pushed')]
       /\ failingStep => elements' = elements]_vars

\* the step is the user starting a builtin generation: the adapter's recordUsage()
userStartsGeneration ==
    /\ pc \in {"idle", "completed", "failed"}
    /\ ret'.op = "recordUsage"
    /\ ret'.arg = 0
    /\ pc' \in {"fetching", "failed"}

\* C23: a generation dispatches at most one request to the provider, and the number
\* of dispatches changes only in the step in which the user starts a generation: a
\* failed generation stays failed, with no further request, until the user starts
\* the next one.
C23_NoAutomaticRetry ==
    [][/\ fetchCalls' <= 1
       /\ fetchCalls' # fetchCalls => userStartsGeneration
       /\ pc = "failed" /\ pc' # "failed" => userStartsGeneration]_vars

\* a generation whose only fetch was rejected has failed
C23_Witness ==
    /\ pc = "failed"
    /\ fetchCalls = 1
    /\ thrown = adapterError(fetchFailedText)

\* the step is one of the limiter's calls on the session it holds
limiterCall ==
    /\ ret' # ret
    /\ ret'.op \in {"checkLimits", "recordUsage", "getUsageStats", "isInCooldown",
                    "getErrorMessage"}

\* C25: no call of checkLimits, recordUsage, getUsageStats, isInCooldown or
\* getErrorMessage lowers the request count or the token count of the session, and
\* a step in which either count goes down leaves a fresh session (zero counts, no
\* violations, reset at the time of the step).
C25_CountersMonotonic ==
    [][/\ limiterCall =>
             /\ sessionData'.requests >= sessionData.requests
             /\ sessionData'.tokens >= sessionData.tokens
       /\ (\/ sessionData'.requests < sessionData.requests
           \/ sessionData'.tokens < sessionData.tokens) =>
             /\ sessionData' = FreshSession(now)
             /\ ret'.op \in {"resetUsage", "constructor"}]_vars

\* getErrorMessage has reported the hourly request limit and the counts are as before
C25_Witness ==
    /\ ret.op = "getErrorMessage"
    /\ ret.result.text = "hourly request limit reached"
    /\ sessionData = ret.before
    /\ sessionData.requests >= getLimits.requestsPerHour
    /\ sessionData.tokens > 0

\* a builtin body with one content frame, one usage frame and the terminator
OneUsageBody == <<"DATA", "cA", "NL", "DATA", "use", "NL", "DATA", "DONE", "NL">>

\* C27: when a dispatched builtin generation whose stream carried one usage frame of
\* T tokens has completed, the session counts one request for it, the one recorded
\* at dispatch, and T tokens more than at dispatch.
C27_OneRequestPerGeneration ==
    (pc = "completed" /\ wire = OneUsageBody) =>
        /\ sessionData.requests = usageCheck.usage.requests
        /\ sessionData.tokens = usageCheck.usage.tokens + Json("use").total_tokens

\* C28: a stored session whose lastReset is on another calendar day than the moment
\* of loading is replaced: the session the constructor leaves is the fresh session
\* of that moment.
C28_OtherDayLoadsFresh ==
    (ret.op = "constructor" /\ ~sameCalendarDay(ret.before.lastReset, ret.at))
        => sessionData = FreshSession(ret.at)

\* the windows of a text from its first opener to its last closer (one or none)
windows(text, opener, closer) ==
    {SubSeq(text, i, j) : i \in {i \in 1..Len(text) :
                                   /\ text[i] = opener
                                   /\ \A k \in 1..(i - 1) : text[k] # opener},
                          j \in {j \in 1..Len(text) :
                                   /\ text[j] = closer
                                   /\ \A k \in (j + 1)..Len(text) : text[k] # closer
                                   /\ \E i \in 1..(j - 1) :
                                          /\ text[i] = opener
                                          /\ \A k \in 1..(i - 1) : text[k] # opener}}

\* the widest window of a text: the object window, failing that the array window
fallbackWindows(text) ==
    IF windows(text, "{", "}") # {} THEN windows(text, "{", "}") ELSE windows(text, "[", "]")

opensWithBracket(text) == startsWith(text, "{") \/ startsWith(text, "[")

completedAnalysis ==
    analyzeJsonStructure(trim(out.arg) \o out.result.structureAnalysis.pendingClosers)

\* C30: when the analysis of a text leaves brackets open, the analysis of the text
\* followed by its pendingClosers leaves none open: pendingCount is 0 and
\* pendingClosers is empty.
C30_ClosersBalance ==
    (out.op = "tryParseAndApply" /\ out.result.structureAnalysis.pendingCount > 0) =>
        /\ completedAnalysis.pendingCount = 0
        /\ completedAnalysis.pendingClosers = <<>>

\* C22: once a new generation has been started while another was being read, the
\* earlier one is cancelled: it takes no further step, so it reads no more from its
\* transport, its buffer and its accumulated code stay as they are, and it writes
\* neither the editor's code nor the canvas.
C22_PriorCancelled ==
    [][prior.state = "streaming" => prior' = prior]_vars

\* the step dispatches a request to the builtin backend
builtinDispatch == pc # "fetching" /\ pc' = "fetching"

\* C24: a request is dispatched to the builtin backend only when the status
\* collaborator can report ready at that moment, be it from the service or from a
\* status it cached less than 30 seconds ago.
C24_DispatchOnlyWhenReady ==
    [][builtinDispatch => \E builtinStatus \in getBuiltinStatus :
                              builtinStatus.status = "ready"]_vars

\* the step is a call of tryParseAndApply from the editor
applyStep ==
    /\ pagePc = "idle"
    /\ out'.op = "tryParseAndApply"
    /\ <<elements, pushed, jsonError, out>>' # <<elements, pushed, jsonError, out>>

\* the value has none of the four shapes
shapeless(value) == \A k \in 1..4 : ~shapes(value)[k].matches

\* C31: when the text handed to tryParseAndApply parses directly to a value of none
\* of the four shapes, nothing is passed to the canvas, the array on the canvas
\* stays and the JSON error is set.
C31_NoShapeNothingDelivered ==
    [][(applyStep /\ out'.result.directOk /\ shapeless(out'.result.parsed)) =>
           /\ pushed' = pushed
           /\ elements' = elements
           /\ jsonError' # "null"]_vars

C33_LoggedViolationNeverAllowed ==
    /\ sessionData.violations # <<>> =>
          \/ sessionData.requests >= getLimits.requestsPerHour
          \/ sessionData.tokens >= getLimits.tokensPerHour
    /\ (isLimitCheck /\ ret.before.violations # <<>>) => decisionOf.allowed = FALSE

\* a check after the cooldown of the last logged violation has ended is denied
C33_Witness ==
    /\ ret.op = "checkLimits"
    /\ ret.before.violations # <<>>
    /\ ret.at >= loggedEnd(ret.before)
    /\ ret.result.allowed = FALSE
    /\ ret.result.violation # "COOLDOWN"

\* the daily condition of checkLimits holds of the session at the time
dailyCondition(s, t) ==
    /\ sameCalendarDay(t, s.lastReset)
    /\ s.requests >= getLimits.requestsPerDay

\* C34: no limit check returns the violation kind DAILY_REQUESTS and none is logged
\* with it: when the daily condition holds, the decision is the cooldown or the
\* hourly request denial.
C34_DailyNeverReturned ==
    /\ isLimitCheck =>
          /\ decisionOf.violation # "DAILY_REQUESTS"
          /\ dailyCondition(checkedSession, ret.at) =>
                decisionOf.violation \in {"COOLDOWN", "HOURLY_REQUESTS"}
    /\ \A k \in 1..Len(sessionData.violations) :
          sessionData.violations[k].type # "DAILY_REQUESTS"

\* a check on a session at the daily cap is denied for the hourly cap
C34_Witness ==
    /\ isLimitCheck
    /\ dailyCondition(checkedSession, ret.at)
    /\ decisionOf.violation = "HOURLY_REQUESTS"

\* C36: every span returned by balanced extraction begins with an opener, ends with the
\* closer of that opener, and analyzeJsonStructure of the span alone reports it balanced,
\* with no mismatched closer and nothing pending.
C36_SpanIsBalanced ==
    (out.op = "postProcessExcalidrawCode" /\ out.result.balancedSnippet.found) =>
        \E span \in {out.result.balancedSnippet.text} :
        \E a \in {analyzeJsonStructure(span)} :
            /\ span # <<>>
            /\ span[1] \in {"{", "["}
            /\ span[Len(span)] = closingBracketMap(span[1])
            /\ a.isBalanced
            /\ a.hasMismatchedClosing = FALSE
            /\ a.pendingCount = 0

\* a span found after a closer that matched nothing had reset the scan
C36_Witness ==
    /\ out.op = "postProcessExcalidrawCode"
    /\ out.result.balancedSnippet.found
    /\ analyzeJsonStructure(out.result.processed).hasMismatchedClosing
    /\ out.result.balancedSnippet.text # out.result.processed

\* the text left in the line buffer, taken as one more line
leftoverLine == IF buffer = <<>> THEN <<>> ELSE <<buffer>>

\* C35: when the transport has ended and the adapter has completed, the fragments
\* emitted are those of every line of the body, the final line without a newline
\* included.
C35_LeftoverLineProcessed ==
    (prodState = "done" /\ transport = <<>>) =>
        /\ style = "openai" => fullText = openAILines(consumedLines \o leftoverLine)
        /\ style = "anthropic" => fullText = anthropicLines(consumedLines \o leftoverLine)
        /\ style = "builtin-glm" => emitted = builtinFragments(consumedLines \o leftoverLine)

C40_SelectionSurvivesReload ==
    [][/\ (LoadConfigs /\ isLoaded) => getActiveConfig' = getActiveConfig
       /\ ~(builtinStored' /\ activeStored' # null)]_vars

\* some call of handleSendMessage has started and has neither completed nor failed
generationRunning == pagePc \in {"fetching", "streaming"} \/ prior.state = "streaming"

\* C38: the generating flag is set from the start of a generation until that generation
\* completes or fails: it is true whenever some generation is fetching or reading its
\* stream and false when none is.
C38_FlagWhileGenerating == isGenerating = generationRunning

\* C39: the content on a canvas whose API is ready has its scroll pending or done: a
\* timer is set for content of its signature, or the last scrollToContent was for it.
C39_ScrollPendingOrDone ==
    (canvas.api /\ canvas.converted # <<>>) =>
        \/ /\ canvas.timer.set
           /\ createElementsSignature(canvas.timer.elements)
                  = createElementsSignature(canvas.converted)
        \/ canvas.scrolled = createElementsSignature(canvas.converted)

====
